---- MODULE Spec2Model ----
(***************************************************************************)
(* Position aggregation engine of the trading journal                       *)
(* (src/src/services/positionAggregator.ts, src/src/services/lighterApi.ts) *)
(*                                                                          *)
(* One run of aggregateTradesIntoPositions() is a state machine: the three  *)
(* awaited collaborator calls, the grouping by symbol, the replay of each   *)
(* symbol's fills (one step per fill), the finalisation of the symbol       *)
(* (trailing open position, live overlay) and the final sort.               *)
(*                                                                          *)
(* Numbers: JavaScript doubles are modelled as exact rationals <<n, d>>     *)
(* (d > 0, lowest terms); a division by zero gives NaNRat.  Quantities and  *)
(* prices of fills are integers; timestamps are integer milliseconds.       *)
(* An optional value is <<>> when undefined/null and <<v>> when present;    *)
(* an optional string is NoValue when undefined/null.                       *)
(***************************************************************************)
EXTENDS Integers, Sequences, FiniteSets, TLC

\* ------------------------------------------------------------------ bounds

\* Largest number of fill rows in the fill store.
MaxFills == 3

\* ------------------------------------------------------- program constants

\* positionAggregator.ts:199/242  runningQuantity <= 0.0001  (EpsNum / EpsDen)
EpsNum == 1
EpsDen == 10000
\* positionAggregator.ts:225  ... < 1000  (milliseconds)
MatchToleranceMs == 1000

NoValue == "<undefined>"

\* ---------------------------------------------------------------- helpers

Abs(x) == IF x < 0 THEN -x ELSE x

RECURSIVE Gcd(_, _)
Gcd(a, b) == IF b = 0 THEN a ELSE Gcd(b, a % b)

\* Rationals standing for the doubles of the program.
NaNRat == <<0, 0>>
IsNaN(r) == r[2] = 0
Rat(n, d) ==
    IF d = 0 THEN NaNRat
    ELSE LET g == Gcd(Abs(n), Abs(d))
             s == IF d < 0 THEN -1 ELSE 1
         IN  <<(s * n) \div g, (s * d) \div g>>
RInt(n) == <<n, 1>>
RAdd(x, y) == IF IsNaN(x) \/ IsNaN(y) THEN NaNRat
              ELSE Rat(x[1] * y[2] + y[1] * x[2], x[2] * y[2])
RSub(x, y) == IF IsNaN(x) \/ IsNaN(y) THEN NaNRat
              ELSE Rat(x[1] * y[2] - y[1] * x[2], x[2] * y[2])
RMul(x, y) == IF IsNaN(x) \/ IsNaN(y) THEN NaNRat
              ELSE Rat(x[1] * y[1], x[2] * y[2])
RDiv(x, y) == IF IsNaN(x) \/ IsNaN(y) THEN NaNRat
              ELSE Rat(x[1] * y[2], x[2] * y[1])

RECURSIVE SumSeq(_)
SumSeq(s) == IF s = <<>> THEN 0 ELSE Head(s) + SumSeq(Tail(s))

RECURSIVE SelectSeqBy(_, _)
\* Array.prototype.filter with the predicate given as the set of kept elements.
SelectSeqBy(s, keep) ==
    IF s = <<>> THEN <<>>
    ELSE IF Head(s) \in keep THEN <<Head(s)>> \o SelectSeqBy(Tail(s), keep)
         ELSE SelectSeqBy(Tail(s), keep)

Range(s) == {s[k] : k \in 1..Len(s)}

\* ----------------------------------------------------------- input domains

Symbols == {"ETH", "BTC"}
Sides == {"BUY", "SELL"}

\* lighterApi.ts:50-52  type and side of a stored fill are written together.
TypeOfSide(side) == IF side = "BUY" THEN "long" ELSE "short"

\* A row of the trades table (DBTrade).  quantity and entry_price are the
\* values after Number(x) || 0 (a null or unparsable column reads as 0).
DBTradeRow(k, sym, side, qty, price, date) ==
    [id |-> k, symbol |-> sym, side |-> side, type |-> TypeOfSide(side),
     quantity |-> qty, entry_price |-> price, entry_date |-> date]

Quantities == {4, 6, 10}
Prices == {90, 100, 110}
Lots == [side : Sides, quantity : Quantities, price : Prices]
\* Lots with a zero quantity or a zero price (a null column reads as 0).
DegenerateLots ==
    [side : Sides, quantity : {0, 1}, price : {0, 100}] \ [side : Sides, quantity : {1}, price : {100}]

\* A fill history of one symbol with distinct timestamps and the lots f.
\* The table is read newest first (order('entry_date', descending)).
NumericTable(n, f) ==
    [k \in 1..n |-> DBTradeRow(k, "ETH", f[k].side, f[k].quantity, f[k].price,
                              1000 * (n - k + 1))]

FillTimes == {1000, 2000}
Stamps == [symbol : Symbols, side : Sides, date : FillTimes]

\* A fill history over two symbols with equal and unequal timestamps.
NewestFirst(n, f) == \A k \in 1..(n - 1) : f[k].date >= f[k + 1].date
MixedTable(n, f) ==
    [k \in 1..n |-> DBTradeRow(k, f[k].symbol, f[k].side, 1, 100, f[k].date)]

\* A row of the positions table (DBPosition): the columns aggregation reads.
DBPositionRow(sym, status, opened, journal, category) ==
    [id |-> <<"pos", sym, IF opened = <<>> THEN 0 ELSE opened[1]>>,
     symbol |-> sym, status |-> status, opened_at |-> opened,
     journal |-> journal, category |-> category]

OpenedAts == {<<>>, <<1>>, <<2000>>}
FirstRows ==
    {DBPositionRow(sym, st, o, "note", "Swing") :
       sym \in Symbols, st \in {"open", "closed"}, o \in OpenedAts}
    \cup {DBPositionRow("ETH", st, <<1>>, "", NoValue) : st \in {"open", "closed"}}
SecondRows ==
    {DBPositionRow("ETH", st, o, "other", "Scalp") :
       st \in {"open", "closed"}, o \in {<<1001>>, <<1999>>}}
PositionsTables ==
    {<<>>} \cup {<<r>> : r \in FirstRows}
    \cup {<<r1, r2>> : r1 \in {r \in FirstRows : r.symbol = "ETH" /\ r.opened_at = <<1>>
                                                   /\ r.journal = "note"},
                       r2 \in SecondRows}

\* An element of the live feed's list as the aggregation reads it
\* (positionAggregator.ts:72-89); every numeric column is a decimal string,
\* here <<>> when missing or unparsable and <<n>> when it parses to n.
LiveEntry(market, side, size, margin, upnl) ==
    [market_id |-> market, side |-> side, size |-> size,
     position_value |-> <<>>, mark_price |-> <<105>>, liquidation_price |-> <<>>,
     margin |-> margin, leverage |-> <<2>>, funding |-> <<0>>,
     unrealized_pnl |-> upnl]
\* An element with every numeric column the overlay reads given.
LiveEntryOf(market, side, size, mark, margin, funding, upnl) ==
    [market_id |-> market, side |-> side, size |-> size,
     position_value |-> <<500>>, mark_price |-> mark, liquidation_price |-> <<80>>,
     margin |-> margin, leverage |-> <<2>>, funding |-> funding,
     unrealized_pnl |-> upnl]
\* An object that is not a position (no side, no numeric column).
JunkEntry ==
    [market_id |-> <<>>, side |-> NoValue, size |-> <<>>,
     position_value |-> <<>>, mark_price |-> <<>>, liquidation_price |-> <<>>,
     margin |-> <<>>, leverage |-> <<>>, funding |-> <<>>, unrealized_pnl |-> <<>>]

\* What the HTTP call of fetchOpenPositions can meet.
LiveFeed(kind, items) == [kind |-> kind, items |-> items]
EmptyFeed == LiveFeed("array", <<>>)
\* Every column parses to a number other than 0; two entries of ETH long.
FullFeed ==
    LiveFeed("array", <<LiveEntryOf(<<1>>, "long", <<9>>, <<105>>, <<10>>, <<1>>, <<4>>),
                        LiveEntryOf(<<0>>, "long", <<5>>, <<105>>, <<10>>, <<1>>, <<3>>),
                        LiveEntryOf(<<0>>, "long", <<6>>, <<106>>, <<20>>, <<2>>, <<8>>)>>)
LiveFeeds ==
    { LiveFeed("networkError", <<>>),
      LiveFeed("notOk", <<>>),
      EmptyFeed,
      LiveFeed("array", <<LiveEntry(<<0>>, "long", <<5>>, <<10>>, <<3>>)>>),
      LiveFeed("positionsObject", <<LiveEntry(<<1>>, "short", <<7>>, <<0>>, <<-2>>)>>),
      LiveFeed("object", <<JunkEntry>>),
      LiveFeed("notObject", <<>>),
      FullFeed,
      \* size and mark price do not parse, the other columns do
      LiveFeed("array", <<LiveEntryOf(<<0>>, "short", <<>>, <<>>, <<10>>, <<1>>, <<-2>>)>>),
      \* unrealized P&L "0" with a positive margin
      LiveFeed("array", <<LiveEntryOf(<<0>>, "long", <<5>>, <<105>>, <<10>>, <<1>>, <<0>>)>>),
      \* a negative margin; a negative size
      LiveFeed("array", <<LiveEntryOf(<<0>>, "long", <<5>>, <<105>>, <<-10>>, <<1>>, <<3>>),
                          LiveEntryOf(<<0>>, "short", <<-7>>, <<105>>, <<10>>, <<1>>, <<3>>)>>) }

\* ------------------------------------------------------------------- state

VARIABLES
    tradesTable,        \* rows of the trades table, as a select returns them
    positionsTable,     \* rows of the positions table
    liveFeed,           \* what the live feed's HTTP call meets
    pc,                 \* position of aggregateTradesIntoPositions
    tradesSelect,       \* getTradesFromDB: what the select returned
    positionsSelect,    \* getPositionsFromDB: what the select returned
    dbTrades,           \* aggregateTradesIntoPositions: dbTrades
    existingPositions,  \* aggregateTradesIntoPositions: existingPositions
    livePositions,      \* aggregateTradesIntoPositions: livePositions
    symbolQueue,        \* keys of tradesBySymbol not yet processed
    symbol,             \* calculatePositionsForSymbol: symbol
    trades,             \* calculatePositionsForSymbol: trades (sortedTrades)
    idx,                \* index of the next fill of the for-of loop
    currentPosition,    \* <<>> for null, else <<the partial position>>
    runningQuantity,
    totalEntryCost,
    totalExitRevenue,
    realizedPnl,
    fillsCount,
    fills,
    positions,          \* calculatePositionsForSymbol: positions
    builderPositions,   \* every list calculatePositionsForSymbol returned, joined
    allPositions,       \* aggregateTradesIntoPositions: allPositions
    result,             \* <<>> until the promise resolves, then <<the list>>
    error,              \* NoValue, or what the promise rejected with
    previous,           \* <<>>, or <<the reads and the list of the call before>>
    appPositions,       \* App: positions (React state)
    editingId,          \* PositionsTable: editingId, <<>> for null
    editValues,         \* PositionsTable: editValues
    saving,             \* PositionsTable: saving
    pending,            \* <<>>, or <<the call of onUpdatePosition in flight>>
    updateOutcome,      \* updatePosition: what the last update met
    updateSettled,      \* how the last onUpdatePosition promise settled
    loadRuns,           \* App: the calls of loadPositions, in the order triggered
    positionsLoading,   \* App: positionsLoading (React state)
    syncCall,           \* syncPositionsToDatabase: the call and its place in the loop
    tradeLinks,         \* the position_id column of the trades table, as pairs
    fetchCall,          \* fetchLighterTrades: the call, its settings and its place
    apiFeed             \* what the exchange's trade history call meets

env == <<tradesTable, positionsTable, liveFeed>>
fetched == <<tradesSelect, positionsSelect, dbTrades, existingPositions, livePositions>>
replay == <<symbol, trades, idx, currentPosition, runningQuantity, totalEntryCost,
            totalExitRevenue, realizedPnl, fillsCount, fills, positions>>
caller == <<previous>>
ui == <<appPositions, editingId, editValues, saving, pending, updateOutcome,
        updateSettled>>
services == <<loadRuns, positionsLoading, syncCall, tradeLinks, fetchCall, apiFeed>>
vars == <<env, pc, fetched, symbolQueue, replay, builderPositions, allPositions,
          result, error, caller, ui, services>>

\* ------------------------------------------------ the program's functions

\* positionAggregator.ts:100-109.  The keys in insertion order, and a key's rows.
RECURSIVE SymbolKeys(_, _)
SymbolKeys(rows, seen) ==
    IF rows = <<>> THEN <<>>
    ELSE IF Head(rows).symbol \in seen THEN SymbolKeys(Tail(rows), seen)
         ELSE <<Head(rows).symbol>> \o SymbolKeys(Tail(rows), seen \cup {Head(rows).symbol})
groupTradesBySymbol(rows, sym) ==
    SelectSeqBy(rows, {r \in Range(rows) : r.symbol = sym})

\* Array.prototype.sort is stable: insertion after the last element not greater.
RECURSIVE InsertAscending(_, _)
InsertAscending(sorted, r) ==
    IF sorted = <<>> THEN <<r>>
    ELSE IF Head(sorted).entry_date <= r.entry_date
         THEN <<Head(sorted)>> \o InsertAscending(Tail(sorted), r)
         ELSE <<r>> \o sorted
RECURSIVE SortFrom(_, _)
SortFrom(sorted, rest) ==
    IF rest = <<>> THEN sorted
    ELSE SortFrom(InsertAscending(sorted, Head(rest)), Tail(rest))
\* Mutant of sortedTrades: the rows are left in the order the store returned.
sortedTrades_NotSorted(rows) == rows
\* positionAggregator.ts:41-43
sortedTrades(rows) == SortFrom(<<>>, rows)

RECURSIVE InsertNewestFirst(_, _)
InsertNewestFirst(sorted, p) ==
    IF sorted = <<>> THEN <<p>>
    ELSE IF Head(sorted).openedAt >= p.openedAt
         THEN <<Head(sorted)>> \o InsertNewestFirst(Tail(sorted), p)
         ELSE <<p>> \o sorted
RECURSIVE SortNewestFrom(_, _)
SortNewestFrom(sorted, rest) ==
    IF rest = <<>> THEN sorted
    ELSE SortNewestFrom(InsertNewestFirst(sorted, Head(rest)), Tail(rest))
\* Mutant of sortByOpenedAtDesc: the list is returned in the order of the push.
sortByOpenedAtDesc_Unsorted(ps) == ps
\* positionAggregator.ts:62
sortByOpenedAtDesc(ps) == SortNewestFrom(<<>>, ps)

\* Mutant of tradeFill: the fallback of trade.type || 'long' is always taken.
tradeFill_TypeLong(trade) ==
    [id |-> trade.id, symbol |-> trade.symbol, type |-> "long",
     entryPrice |-> trade.entry_price, quantity |-> trade.quantity,
     entryDate |-> trade.entry_date]
\* positionAggregator.ts:161-170
tradeFill(trade) ==
    [id |-> trade.id, symbol |-> trade.symbol, type |-> trade.type,
     entryPrice |-> trade.entry_price, quantity |-> trade.quantity,
     entryDate |-> trade.entry_date]

\* Mutant of SideOfOpeningFill: every position is created LONG.
SideOfOpeningFill_AlwaysLong(isBuy) == "LONG"
\* positionAggregator.ts:140
SideOfOpeningFill(isBuy) == IF isBuy THEN "LONG" ELSE "SHORT"

\* Mutant of isAddingToPosition: every fill adds to the position.
isAddingToPosition_Always(side, isBuy) == TRUE
\* positionAggregator.ts:175-177
isAddingToPosition(side, isBuy) ==
    (side = "LONG" /\ isBuy) \/ (side = "SHORT" /\ ~isBuy)

\* positionAggregator.ts:185
avgEntryOf(entryCost, runningQty) == Rat(entryCost, runningQty)

\* Mutant of realizedDelta: the LONG formula is used for both sides.
realizedDelta_LongOnly(side, price, avgEntry, quantity) ==
    RMul(RSub(RInt(price), avgEntry), RInt(quantity))
\* positionAggregator.ts:188-192  the amount added to realizedPnl
realizedDelta(side, price, avgEntry, quantity) ==
    IF side = "LONG"
    THEN RMul(RSub(RInt(price), avgEntry), RInt(quantity))
    ELSE RMul(RSub(avgEntry, RInt(price)), RInt(quantity))

\* Mutant of isFlat: a position closes only below zero.
isFlat_BelowZero(q) == q < 0
\* positionAggregator.ts:199  runningQuantity <= 0.0001
isFlat(q) == q * EpsDen <= EpsNum

ValueOf(fs) == SumSeq([k \in 1..Len(fs) |-> fs[k].entryPrice * fs[k].quantity])
QuantityOf(fs) == SumSeq([k \in 1..Len(fs) |-> fs[k].quantity])

\* positionAggregator.ts:281-302
calculateWeightedAvgEntry(fs, side) ==
    LET entryFills == SelectSeqBy(fs, {f \in Range(fs) :
                          (side = "LONG" /\ f.type = "long")
                          \/ (side = "SHORT" /\ f.type = "short")})
        allEntries == [k \in 1..((Len(fs) + 1) \div 2) |-> fs[2 * k - 1]]
        chosen == IF entryFills = <<>> THEN allEntries ELSE entryFills
    IN  IF entryFills = <<>> /\ allEntries = <<>> THEN RInt(0)
        ELSE IF QuantityOf(chosen) > 0
             THEN Rat(ValueOf(chosen), QuantityOf(chosen))
             ELSE RInt(0)

\* positionAggregator.ts:307-318   <<>> is undefined
calculateWeightedAvgExit(fs, side) ==
    LET exitFills == SelectSeqBy(fs, {f \in Range(fs) :
                         (side = "LONG" /\ f.type = "short")
                         \/ (side = "SHORT" /\ f.type = "long")})
    IN  IF exitFills = <<>> THEN <<>>
        ELSE IF QuantityOf(exitFills) > 0
             THEN <<Rat(ValueOf(exitFills), QuantityOf(exitFills))>>
             ELSE <<>>

\* x || undefined for a string column
orUndefined(x) == IF x = "" \/ x = NoValue THEN NoValue ELSE x

\* Array.prototype.find: <<>> or <<the first element in keep>>
FindFirst(s, keep) ==
    LET hits == SelectSeqBy(s, keep) IN IF hits = <<>> THEN <<>> ELSE <<Head(hits)>>

\* Mutant of matchesClosed: the tolerance is inclusive.
matchesClosed_Inclusive(p, sym, openedAt) ==
    /\ p.symbol = sym
    /\ p.opened_at # <<>>
    /\ Abs(p.opened_at[1] - openedAt) <= MatchToleranceMs
\* positionAggregator.ts:222-226
matchesClosed(p, sym, openedAt) ==
    /\ p.symbol = sym
    /\ p.opened_at # <<>>
    /\ Abs(p.opened_at[1] - openedAt) < MatchToleranceMs
findExistingForClosed(existing, sym, openedAt) ==
    FindFirst(existing, {p \in Range(existing) : matchesClosed(p, sym, openedAt)})

\* Mutant of matchesOpen: the symbol is not compared.
matchesOpen_AnySymbol(p, sym) == p.status = "open"
\* positionAggregator.ts:262-265
matchesOpen(p, sym) == p.symbol = sym /\ p.status = "open"
findExistingForOpen(existing, sym) ==
    FindFirst(existing, {p \in Range(existing) : matchesOpen(p, sym)})

\* positionAggregator.ts:227-231 and 266-270
withExisting(position, existingPos) ==
    IF existingPos = <<>> THEN position
    ELSE [position EXCEPT !.id = existingPos[1].id,
                          !.journal = orUndefined(existingPos[1].journal),
                          !.category = orUndefined(existingPos[1].category)]

\* Mutant of realizedPnlPercentOf: the percentage is computed whatever the cost.
realizedPnlPercentOf_Unguarded(pnl, entryCost, whenNoCost) ==
    <<RMul(RDiv(pnl, RInt(entryCost)), RInt(100))>>
\* positionAggregator.ts:213 and 254   <<>> is undefined
realizedPnlPercentOf(pnl, entryCost, whenNoCost) ==
    IF entryCost > 0 THEN <<RMul(RDiv(pnl, RInt(entryCost)), RInt(100))>>
    ELSE whenNoCost

\* The fields of a Position that the live overlay sets, all undefined.
NoOverlay ==
    [positionSizeUsd |-> <<>>, currentPrice |-> <<>>, liquidationPrice |-> <<>>,
     margin |-> <<>>, leverage |-> <<>>, funding |-> <<>>, unrealizedPnl |-> <<>>,
     unrealizedPnlPercent |-> <<>>]

\* Mutant of closedPositionOf: the status of the partial position is kept.
closedPositionOf_StatusKept(cur, sym, trade, entryCost, exitRevenue, pnl, count, fs) ==
    [id |-> cur.id, symbol |-> sym, side |-> cur.side, status |-> "open",
     totalQuantity |-> 0,
     avgEntryPrice |-> RInt(0), avgExitPrice |-> <<>>,
     totalEntryCost |-> entryCost, totalExitRevenue |-> exitRevenue,
     realizedPnl |-> pnl, realizedPnlPercent |-> <<>>,
     openedAt |-> cur.openedAt, closedAt |-> <<trade.entry_date>>,
     fillsCount |-> count, fills |-> fs,
     journal |-> NoValue, category |-> NoValue,
     live |-> [positionSizeUsd |-> <<>>, currentPrice |-> <<>>,
               liquidationPrice |-> <<>>, margin |-> <<>>, leverage |-> <<>>,
               funding |-> <<>>, unrealizedPnl |-> <<>>,
               unrealizedPnlPercent |-> <<>>]]
\* Mutant of closedPositionOf: the close time is the time the position opened.
closedPositionOf_ClosedAtOpened(cur, sym, trade, entryCost, exitRevenue, pnl, count, fs) ==
    [id |-> cur.id, symbol |-> sym, side |-> cur.side, status |-> "closed",
     totalQuantity |-> 0,
     avgEntryPrice |-> calculateWeightedAvgEntry(fs, cur.side),
     avgExitPrice |-> calculateWeightedAvgExit(fs, cur.side),
     totalEntryCost |-> entryCost, totalExitRevenue |-> exitRevenue,
     realizedPnl |-> pnl,
     realizedPnlPercent |-> realizedPnlPercentOf(pnl, entryCost, <<RInt(0)>>),
     openedAt |-> cur.openedAt, closedAt |-> <<cur.openedAt>>,
     fillsCount |-> count, fills |-> fs,
     journal |-> NoValue, category |-> NoValue, live |-> NoOverlay]
\* positionAggregator.ts:201-219
closedPositionOf(cur, sym, trade, entryCost, exitRevenue, pnl, count, fs) ==
    [id |-> cur.id, symbol |-> sym, side |-> cur.side, status |-> "closed",
     totalQuantity |-> 0,
     avgEntryPrice |-> calculateWeightedAvgEntry(fs, cur.side),
     avgExitPrice |-> calculateWeightedAvgExit(fs, cur.side),
     totalEntryCost |-> entryCost, totalExitRevenue |-> exitRevenue,
     realizedPnl |-> pnl,
     realizedPnlPercent |-> realizedPnlPercentOf(pnl, entryCost, <<RInt(0)>>),
     openedAt |-> cur.openedAt, closedAt |-> <<trade.entry_date>>,
     fillsCount |-> count, fills |-> fs,
     journal |-> NoValue, category |-> NoValue, live |-> NoOverlay]

\* positionAggregator.ts:243-259
openPositionOf(cur, sym, runningQty, entryCost, exitRevenue, pnl, count, fs) ==
    [id |-> cur.id, symbol |-> sym, side |-> cur.side, status |-> "open",
     totalQuantity |-> runningQty,
     avgEntryPrice |-> calculateWeightedAvgEntry(fs, cur.side),
     avgExitPrice |-> <<>>,
     totalEntryCost |-> entryCost, totalExitRevenue |-> exitRevenue,
     realizedPnl |-> pnl,
     realizedPnlPercent |-> realizedPnlPercentOf(pnl, entryCost, <<>>),
     openedAt |-> cur.openedAt, closedAt |-> <<>>,
     fillsCount |-> count, fills |-> fs,
     journal |-> NoValue, category |-> NoValue, live |-> NoOverlay]

\* positionAggregator.ts:438-464  (market ids 0 and 1 of MARKET_SYMBOLS)
getSymbolFromMarketId(marketId) ==
    IF marketId = <<0>> THEN "ETH"
    ELSE IF marketId = <<1>> THEN "BTC"
    ELSE "MKT-other"

toUpperCase(x) == IF x = "long" THEN "LONG" ELSE IF x = "short" THEN "SHORT" ELSE x

\* positionAggregator.ts:70-76.  lp.side.toUpperCase() throws a TypeError on
\* an element without a side; find stops at the first element that matches.
RECURSIVE findLivePositionData(_, _)
findLivePositionData(position, lps) ==
    IF lps = <<>> THEN [threw |-> FALSE, found |-> <<>>]
    ELSE IF Head(lps).side = NoValue THEN [threw |-> TRUE, found |-> <<>>]
    ELSE IF /\ getSymbolFromMarketId(Head(lps).market_id) = position.symbol
            /\ toUpperCase(Head(lps).side) = position.side
         THEN [threw |-> FALSE, found |-> <<Head(lps)>>]
         ELSE findLivePositionData(position, Tail(lps))

\* parseFloat(x) || undefined : NaN and 0 are both falsy
parseFloatOrUndefined(x) == IF x = <<>> \/ x = <<0>> THEN <<>> ELSE x

\* positionAggregator.ts:81-95
mergeWithLiveData(position, liveData) ==
    LET margin == parseFloatOrUndefined(liveData.margin)
        upnl == parseFloatOrUndefined(liveData.unrealized_pnl)
        size == parseFloatOrUndefined(liveData.size)
    IN  [position EXCEPT
           !.totalQuantity = IF size = <<>> THEN @ ELSE size[1],
           !.live = [positionSizeUsd |-> parseFloatOrUndefined(liveData.position_value),
                     currentPrice |-> parseFloatOrUndefined(liveData.mark_price),
                     liquidationPrice |-> parseFloatOrUndefined(liveData.liquidation_price),
                     margin |-> margin,
                     leverage |-> parseFloatOrUndefined(liveData.leverage),
                     funding |-> parseFloatOrUndefined(liveData.funding),
                     unrealizedPnl |-> upnl,
                     unrealizedPnlPercent |->
                        IF upnl # <<>> /\ margin # <<>> /\ margin[1] > 0
                        THEN <<Rat(upnl[1] * 100, margin[1])>>
                        ELSE @.unrealizedPnlPercent]]

\* Mutant of mergedWithLive: the status of the position is not looked at.
mergedWithLive_AnyStatus(position, lps) ==
    LET liveData == findLivePositionData(position, lps).found
    IN  IF liveData = <<>> THEN position
        ELSE mergeWithLiveData(position, liveData[1])
\* positionAggregator.ts:49-56  for one position of symbolPositions
mergedWithLive(position, lps) ==
    IF position.status # "open" THEN position
    ELSE LET liveData == findLivePositionData(position, lps).found
         IN  IF liveData = <<>> THEN position
             ELSE mergeWithLiveData(position, liveData[1])
mergeThrows(ps, lps) ==
    \E k \in 1..Len(ps) :
        ps[k].status = "open" /\ findLivePositionData(ps[k], lps).threw

\* lighterApi.ts:316-375  the list fetchOpenPositions resolves with
fetchOpenPositions(feed) ==
    IF feed.kind \in {"networkError", "notOk"} THEN <<>>
    ELSE IF feed.kind \in {"array", "positionsObject", "positionsArray",
                           "dataArray", "object"}
         THEN feed.items
         ELSE <<>>

\* Mutant of storeAfterAggregate: the run ends with a write-back that stores a
\* row for each position without one.
storeAfterAggregate_Synced(tradesRows, positionRows, ps) ==
    LET known == {positionRows[k].id : k \in 1..Len(positionRows)}
        fresh == SelectSeqBy(ps, {q \in Range(ps) : q.id \notin known})
    IN  [trades |-> tradesRows,
         positions |-> positionRows \o
            [k \in 1..Len(fresh) |->
                DBPositionRow(fresh[k].symbol, fresh[k].status, <<fresh[k].openedAt>>,
                              fresh[k].journal, fresh[k].category)]]
\* Mutant of storeAfterAggregate: the run ends with a write-back of the
\* metadata that clears the journal of every stored row.
storeAfterAggregate_JournalCleared(tradesRows, positionRows, ps) ==
    [trades |-> tradesRows,
     positions |-> [k \in 1..Len(positionRows) |->
                      [positionRows[k] EXCEPT !.journal = NoValue]]]
\* positionAggregator.ts:19-65: the run issues the two selects of lines 21-22
\* and no insert, update or upsert (syncPositionsToDatabase is not called);
\* the rows of both tables after the run are the rows before it.
storeAfterAggregate(tradesRows, positionRows, ps) ==
    [trades |-> tradesRows, positions |-> positionRows]

\* -------------------------------------------------------------------- Init

NoReplay ==
    /\ symbol = NoValue
    /\ trades = <<>>
    /\ idx = 0
    /\ currentPosition = <<>>
    /\ runningQuantity = 0
    /\ totalEntryCost = 0
    /\ totalExitRevenue = 0
    /\ realizedPnl = RInt(0)
    /\ fillsCount = 0
    /\ fills = <<>>
    /\ positions = <<>>

\* The stores and the feed before a run of aggregateTradesIntoPositions().
Inputs ==
    \/ /\ \E n \in 1..MaxFills : \E f \in [1..n -> Lots] :
             tradesTable = NumericTable(n, f)
       /\ positionsTable = <<>>
       /\ liveFeed = EmptyFeed
    \/ /\ \E n \in 1..MaxFills : \E f \in [1..n -> DegenerateLots] :
             tradesTable = NumericTable(n, f)
       /\ positionsTable = <<>>
       /\ liveFeed = EmptyFeed
    \/ /\ \E n \in 0..MaxFills : \E f \in [1..n -> Stamps] :
             NewestFirst(n, f) /\ tradesTable = MixedTable(n, f)
       /\ \/ positionsTable \in PositionsTables /\ liveFeed = EmptyFeed
          \/ positionsTable = <<>> /\ liveFeed \in LiveFeeds \ {EmptyFeed}

\* syncPositionsToDatabase has not been called.
NoSync == [stage |-> "idle", queue |-> <<>>, synced |-> <<>>]
\* fetchLighterTrades has not been called.
NoFetch ==
    [stage |-> "idle", token |-> FALSE, supabase |-> FALSE, stored |-> {},
     written |-> {}, count |-> 0, syncThrew |-> FALSE, readThrew |-> FALSE,
     trades |-> <<>>]

\* The App before anything is loaded or edited (unnamed/part_001:27-28,
\* PositionsTable.tsx:25-27), no call of the services under way.
NothingLoaded ==
    /\ previous = <<>>
    /\ appPositions = <<>>
    /\ editingId = <<>>
    /\ editValues = [journal |-> "", category |-> ""]
    /\ saving = FALSE
    /\ pending = <<>>
    /\ updateOutcome = "pending"
    /\ updateSettled = "none"
    /\ loadRuns = <<>>
    /\ positionsLoading = FALSE
    /\ syncCall = NoSync
    /\ tradeLinks = {}
    /\ fetchCall = NoFetch
    /\ apiFeed = [kind |-> "none", trades |-> <<>>]

\* aggregateTradesIntoPositions() has been called and has read nothing yet.
Called ==
    /\ pc = "getTrades"
    /\ tradesSelect = "pending"
    /\ positionsSelect = "pending"
    /\ dbTrades = <<>>
    /\ existingPositions = <<>>
    /\ livePositions = <<>>
    /\ symbolQueue = <<>>
    /\ NoReplay
    /\ builderPositions = <<>>
    /\ allPositions = <<>>
    /\ result = <<>>
    /\ error = NoValue

Init ==
    /\ Inputs
    /\ NothingLoaded
    /\ Called

\* Persisted rows of which some match a position and some do not.
MatchingPositionsTables ==
    { <<>>,
      <<DBPositionRow("BTC", "open", <<2000>>, "note", "Swing")>>,
      <<DBPositionRow("ETH", "closed", <<1>>, "note", "Swing"),
        DBPositionRow("ETH", "open", <<1999>>, "other", "Scalp")>> }
\* Stores and feeds for two calls in a row: fills of two symbols and a feed of
\* each kind.
TwiceFeeds ==
    {EmptyFeed, FullFeed, LiveFeed("notOk", <<>>), LiveFeed("object", <<JunkEntry>>)}
InputsTwice ==
    /\ \E n \in 0..MaxFills : \E f \in [1..n -> Stamps] :
          NewestFirst(n, f) /\ tradesTable = MixedTable(n, f)
    /\ positionsTable \in MatchingPositionsTables
    /\ liveFeed \in TwiceFeeds
InitTwice ==
    /\ InputsTwice
    /\ NothingLoaded
    /\ Called

\* ----------------------------------------------------------------- actions

\* What a read of the store meets: rows ("ok"), an error of the select
\* ("error"), or no configured client ("notConfigured").
SelectOutcomes == {"ok", "error", "notConfigured"}

\* Mutant of getTradesFromDB: an error of the select reads as no rows.
getTradesFromDB_ErrorAsEmpty(outcome, table) ==
    [threw |-> FALSE, data |-> IF outcome = "error" THEN <<>> ELSE table]
\* positionAggregator.ts:466-484: throws on an error, else resolves with the rows
getTradesFromDB(outcome, table) ==
    IF outcome = "notConfigured" THEN [threw |-> FALSE, data |-> <<>>]
    ELSE IF outcome = "error" THEN [threw |-> TRUE, data |-> <<>>]
    ELSE [threw |-> FALSE, data |-> table]

\* positionAggregator.ts:563-581: throws on an error, else resolves with the rows
getPositionsFromDB(outcome, table) ==
    IF outcome = "notConfigured" THEN [threw |-> FALSE, data |-> <<>>]
    ELSE IF outcome = "error" THEN [threw |-> TRUE, data |-> <<>>]
    ELSE [threw |-> FALSE, data |-> table]

\* positionAggregator.ts:21  const dbTrades = await getTradesFromDB()
GetTradesFromDB ==
    /\ pc = "getTrades"
    /\ \E outcome \in SelectOutcomes :
         LET r == getTradesFromDB(outcome, tradesTable)
         IN  /\ tradesSelect' = outcome
             /\ dbTrades' = r.data
             /\ pc' = IF r.threw THEN "rejected" ELSE "getPositions"
             /\ error' = IF r.threw THEN "tradesError" ELSE error
    /\ UNCHANGED <<services, caller, ui, env, positionsSelect, existingPositions, livePositions,
                   symbolQueue, replay, builderPositions, allPositions, result>>

\* positionAggregator.ts:22  const existingPositions = await getPositionsFromDB()
\* Both reads use the one client of line 407: it is configured for both or none.
GetPositionsFromDB ==
    /\ pc = "getPositions"
    /\ \E outcome \in SelectOutcomes :
         LET r == getPositionsFromDB(outcome, positionsTable)
         IN  /\ (outcome = "notConfigured") = (tradesSelect = "notConfigured")
             /\ positionsSelect' = outcome
             /\ existingPositions' = r.data
             /\ pc' = IF r.threw THEN "rejected" ELSE "fetchLive"
             /\ error' = IF r.threw THEN "positionsError" ELSE error
    /\ UNCHANGED <<services, caller, ui, env, tradesSelect, dbTrades, livePositions, symbolQueue,
                   replay, builderPositions, allPositions, result>>

\* positionAggregator.ts:25-34.  fetchOpenPositions always resolves with an
\* array, so the Array.isArray guard of lines 27-30 never replaces it.
FetchLiveAndGroup ==
    /\ pc = "fetchLive"
    /\ livePositions' = fetchOpenPositions(liveFeed)
    /\ symbolQueue' = SymbolKeys(dbTrades, {})
    /\ pc' = "nextSymbol"
    /\ UNCHANGED <<services, caller, ui, env, tradesSelect, positionsSelect, dbTrades, existingPositions,
                   replay, builderPositions, allPositions, result, error>>

\* positionAggregator.ts:39-46 and 119-126: the next key of tradesBySymbol
StartSymbol ==
    /\ pc = "nextSymbol"
    /\ symbolQueue # <<>>
    /\ symbol' = Head(symbolQueue)
    /\ symbolQueue' = Tail(symbolQueue)
    /\ trades' = sortedTrades(groupTradesBySymbol(dbTrades, Head(symbolQueue)))
    /\ idx' = 1
    /\ pc' = "replay"
    /\ UNCHANGED <<services, caller, ui, env, fetched, currentPosition, runningQuantity, totalEntryCost,
                   totalExitRevenue, realizedPnl, fillsCount, fills, positions,
                   builderPositions, allPositions, result, error>>

\* positionAggregator.ts:128-239: one iteration of the loop over the fills
ReplayFill ==
    /\ pc = "replay"
    /\ idx <= Len(trades)
    /\ LET trade == trades[idx]
           isBuy == trade.side = "BUY"
           quantity == trade.quantity
           price == trade.entry_price
           tradeValue == price * quantity
           opening == currentPosition = <<>>
           cur == IF opening
                  THEN [id |-> <<"pos", symbol, trade.entry_date>>,
                        side |-> SideOfOpeningFill(isBuy),
                        openedAt |-> trade.entry_date]
                  ELSE currentPosition[1]
           qty0 == IF opening THEN 0 ELSE runningQuantity
           cost0 == IF opening THEN 0 ELSE totalEntryCost
           rev0 == IF opening THEN 0 ELSE totalExitRevenue
           pnl0 == IF opening THEN RInt(0) ELSE realizedPnl
           count1 == (IF opening THEN 0 ELSE fillsCount) + 1
           fills1 == (IF opening THEN <<>> ELSE fills) \o <<tradeFill(trade)>>
           adding == isAddingToPosition(cur.side, isBuy)
           qty1 == IF adding THEN qty0 + quantity ELSE qty0 - quantity
           cost1 == IF adding THEN cost0 + tradeValue ELSE cost0
           rev1 == IF adding THEN rev0 ELSE rev0 + tradeValue
           pnl1 == IF adding THEN pnl0
                   ELSE RAdd(pnl0, realizedDelta(cur.side, price,
                                                 avgEntryOf(cost0, qty0), quantity))
           closed == withExisting(
                        closedPositionOf(cur, symbol, trade, cost1, rev1, pnl1,
                                         count1, fills1),
                        findExistingForClosed(existingPositions, symbol, cur.openedAt))
       IN  /\ totalEntryCost' = cost1
           /\ totalExitRevenue' = rev1
           /\ realizedPnl' = pnl1
           /\ fillsCount' = count1
           /\ fills' = fills1
           /\ IF isFlat(qty1)
              THEN /\ positions' = Append(positions, closed)
                   /\ currentPosition' = <<>>
                   /\ runningQuantity' = 0
              ELSE /\ positions' = positions
                   /\ currentPosition' = <<cur>>
                   /\ runningQuantity' = qty1
    /\ idx' = idx + 1
    /\ UNCHANGED <<services, caller, ui, env, pc, fetched, symbolQueue, symbol, trades, builderPositions,
                   allPositions, result, error>>

\* positionAggregator.ts:241-275, the list calculatePositionsForSymbol returns
symbolPositions ==
    IF currentPosition # <<>> /\ ~isFlat(runningQuantity)
    THEN Append(positions,
                withExisting(
                   openPositionOf(currentPosition[1], symbol, runningQuantity,
                                  totalEntryCost, totalExitRevenue, realizedPnl,
                                  fillsCount, fills),
                   findExistingForOpen(existingPositions, symbol)))
    ELSE positions

ResetReplay ==
    /\ symbol' = NoValue
    /\ trades' = <<>>
    /\ idx' = 0
    /\ currentPosition' = <<>>
    /\ runningQuantity' = 0
    /\ totalEntryCost' = 0
    /\ totalExitRevenue' = 0
    /\ realizedPnl' = RInt(0)
    /\ fillsCount' = 0
    /\ fills' = <<>>
    /\ positions' = <<>>

\* positionAggregator.ts:241-275 and 48-58: the symbol's list is returned,
\* its open positions take the live data, and it is pushed to allPositions
FinishSymbol ==
    /\ pc = "replay"
    /\ idx > Len(trades)
    /\ ~mergeThrows(symbolPositions, livePositions)
    /\ builderPositions' = builderPositions \o symbolPositions
    /\ allPositions' = allPositions \o
          [k \in 1..Len(symbolPositions) |->
              mergedWithLive(symbolPositions[k], livePositions)]
    /\ ResetReplay
    /\ pc' = "nextSymbol"
    /\ UNCHANGED <<services, caller, ui, env, fetched, symbolQueue, result, error>>

\* positionAggregator.ts:51 with :73: findLivePositionData throws
FinishSymbolThrows ==
    /\ pc = "replay"
    /\ idx > Len(trades)
    /\ mergeThrows(symbolPositions, livePositions)
    /\ pc' = "rejected"
    /\ error' = "TypeError"
    /\ UNCHANGED <<services, caller, ui, env, fetched, symbolQueue, replay, builderPositions,
                   allPositions, result>>

\* positionAggregator.ts:61-64: the list is sorted and returned; the run has
\* written nothing to the tables
Return ==
    /\ pc = "nextSymbol"
    /\ symbolQueue = <<>>
    /\ result' = <<sortByOpenedAtDesc(allPositions)>>
    /\ pc' = "resolved"
    /\ tradesTable' = storeAfterAggregate(tradesTable, positionsTable, allPositions).trades
    /\ positionsTable' =
          storeAfterAggregate(tradesTable, positionsTable, allPositions).positions
    /\ UNCHANGED <<services, caller, ui, liveFeed, fetched, symbolQueue, replay,
                   builderPositions, allPositions, error>>

Next ==
    \/ GetTradesFromDB
    \/ GetPositionsFromDB
    \/ FetchLiveAndGroup
    \/ StartSymbol
    \/ ReplayFill
    \/ FinishSymbol
    \/ FinishSymbolThrows
    \/ Return

Spec == Init /\ [][Next]_vars

\* --------------------------------------------------------- two calls in a row

\* unnamed/part_001:42-58: loadPositions runs again (the effect fires on each change of
\* lighterTrades) and calls aggregateTradesIntoPositions() a second time; the
\* second call starts with its own locals (positionAggregator.ts:21-36).
CallAgain ==
    /\ pc = "resolved"
    /\ previous = <<>>
    /\ previous' = <<[tradesSelect |-> tradesSelect,
                      positionsSelect |-> positionsSelect,
                      result |-> result[1]]>>
    /\ pc' = "getTrades"
    /\ tradesSelect' = "pending"
    /\ positionsSelect' = "pending"
    /\ dbTrades' = <<>>
    /\ existingPositions' = <<>>
    /\ livePositions' = <<>>
    /\ builderPositions' = <<>>
    /\ allPositions' = <<>>
    /\ result' = <<>>
    /\ UNCHANGED <<services, ui, env, symbolQueue, replay, error>>

NextTwice ==
    \/ GetTradesFromDB
    \/ GetPositionsFromDB
    \/ FetchLiveAndGroup
    \/ StartSymbol
    \/ ReplayFill
    \/ FinishSymbol
    \/ FinishSymbolThrows
    \/ Return
    \/ CallAgain

SpecTwice == InitTwice /\ [][NextTwice]_vars

\* ------------------------------------------- journal and category edits

\* x || '' for an optional string
orEmpty(x) == IF x = NoValue THEN "" ELSE x

\* What the user types in the textarea and picks in the select.
JournalTexts == {"", "edited"}
CategoryChoices == {"Momentum"}

\* The row after .update({...updates, updated_at}): a key whose value is
\* undefined is not sent, so its column keeps its value.
updatedRow(row, updates) ==
    [row EXCEPT !.journal = IF updates.journal = NoValue THEN @ ELSE updates.journal,
                !.category = IF updates.category = NoValue THEN @
                             ELSE updates.category]

\* Mutant of updatePosition: the update is not filtered by id.
updatePosition_NoFilter(outcome, table, positionId, updates) ==
    [threw |-> outcome = "error",
     table |-> IF outcome # "ok" THEN table
               ELSE [k \in 1..Len(table) |-> updatedRow(table[k], updates)]]
\* positionAggregator.ts:601-617: returns at once without a client, throws on
\* an error, else the rows with id = positionId are updated
updatePosition(outcome, table, positionId, updates) ==
    IF outcome = "notConfigured" THEN [threw |-> FALSE, table |-> table]
    ELSE IF outcome = "error" THEN [threw |-> TRUE, table |-> table]
    ELSE [threw |-> FALSE,
          table |-> [k \in 1..Len(table) |->
                       IF table[k].id = positionId
                       THEN updatedRow(table[k], updates) ELSE table[k]]]

\* Mutant of handleUpdatePosition: the local state is updated before the
\* write has settled, whatever its outcome.
handleUpdatePosition_Optimistic(ps, threw, positionId, updates) ==
    [threw |-> threw,
     positions |-> [k \in 1..Len(ps) |->
                      IF ps[k].id = positionId
                      THEN [ps[k] EXCEPT !.journal = updates.journal,
                                         !.category = updates.category]
                      ELSE ps[k]]]
\* unnamed/part_001:64-75: after updatePosition resolved, positions is mapped with the
\* updates spread over the position of that id; after it threw, the error is
\* rethrown and positions is left alone
handleUpdatePosition(ps, threw, positionId, updates) ==
    [threw |-> threw,
     positions |-> IF threw THEN ps
                   ELSE [k \in 1..Len(ps) |->
                           IF ps[k].id = positionId
                           THEN [ps[k] EXCEPT !.journal = updates.journal,
                                              !.category = updates.category]
                           ELSE ps[k]]]

\* unnamed/part_001:47-54: aggregateTradesIntoPositions() has settled in loadPositions
LoadPositionsSettles ==
    /\ pc \in {"resolved", "rejected"}
    /\ appPositions' = IF pc = "resolved" THEN result[1] ELSE appPositions
    /\ pc' = "loaded"
    /\ UNCHANGED <<services, caller, env, fetched, symbolQueue, replay, builderPositions,
                   allPositions, result, error, editingId, editValues, saving,
                   pending, updateOutcome, updateSettled>>

\* PositionsTable.tsx:39-45, from a row that is not being edited
StartEditing ==
    /\ \E k \in 1..Len(appPositions) :
          /\ editingId # <<appPositions[k].id>>
          /\ editingId' = <<appPositions[k].id>>
          /\ editValues' = [journal |-> orEmpty(appPositions[k].journal),
                            category |-> orEmpty(appPositions[k].category)]
    /\ UNCHANGED <<services, caller, env, pc, fetched, symbolQueue, replay, builderPositions,
                   allPositions, result, error, appPositions, saving, pending,
                   updateOutcome, updateSettled>>

\* PositionsTable.tsx:190 and 205: onChange of the textarea or of the select
ChangeEditValues ==
    /\ editingId # <<>>
    /\ \/ \E j \in JournalTexts : editValues' = [editValues EXCEPT !.journal = j]
       \/ \E c \in CategoryChoices : editValues' = [editValues EXCEPT !.category = c]
    /\ editValues' # editValues
    /\ UNCHANGED <<services, caller, env, pc, fetched, symbolQueue, replay, builderPositions,
                   allPositions, result, error, appPositions, editingId, saving,
                   pending, updateOutcome, updateSettled>>

\* PositionsTable.tsx:47-50; the button is disabled while saving (line 234)
CancelEditing ==
    /\ editingId # <<>>
    /\ ~saving
    /\ editingId' = <<>>
    /\ editValues' = [journal |-> "", category |-> ""]
    /\ UNCHANGED <<services, caller, env, pc, fetched, symbolQueue, replay, builderPositions,
                   allPositions, result, error, appPositions, saving, pending,
                   updateOutcome, updateSettled>>

\* PositionsTable.tsx:52-58 up to the await; the button is disabled while
\* saving (line 227)
SaveEdits ==
    /\ editingId # <<>>
    /\ ~saving
    /\ saving' = TRUE
    /\ pending' = <<[positionId |-> editingId[1],
                     updates |-> [journal |-> orUndefined(editValues.journal),
                                  category |-> orUndefined(editValues.category)]]>>
    /\ updateOutcome' = "pending"
    /\ updateSettled' = "none"
    /\ UNCHANGED <<services, caller, env, pc, fetched, symbolQueue, replay, builderPositions,
                   allPositions, result, error, appPositions, editingId, editValues>>

\* positionAggregator.ts:601-617, unnamed/part_001:66-74 and PositionsTable.tsx:59-64:
\* the write settles, handleUpdatePosition and saveEdits run to their ends.
\* The client of line 407 is the one the fills were read with.
UpdateSettles ==
    /\ pending # <<>>
    /\ \E outcome \in SelectOutcomes :
          LET call == pending[1]
              w == updatePosition(outcome, positionsTable, call.positionId,
                                  call.updates)
              h == handleUpdatePosition(appPositions, w.threw, call.positionId,
                                        call.updates)
          IN  /\ (outcome = "notConfigured") = (tradesSelect = "notConfigured")
              /\ updateOutcome' = outcome
              /\ positionsTable' = w.table
              /\ appPositions' = h.positions
              /\ updateSettled' = IF h.threw THEN "rejected" ELSE "resolved"
              /\ editingId' = IF h.threw THEN editingId ELSE <<>>
    /\ saving' = FALSE
    /\ pending' = <<>>
    /\ UNCHANGED <<services, caller, tradesTable, liveFeed, pc, fetched, symbolQueue, replay,
                   builderPositions, allPositions, result, error, editValues>>

\* Fills of one symbol, one unit each, for the App.
UnitLots == [side : Sides, quantity : {1}, price : {100}]
InputsApp ==
    /\ \E n \in 1..MaxFills : \E f \in [1..n -> UnitLots] :
          tradesTable = NumericTable(n, f)
    /\ positionsTable \in MatchingPositionsTables
    /\ liveFeed = EmptyFeed
InitApp ==
    /\ InputsApp
    /\ NothingLoaded
    /\ Called

NextApp ==
    \/ GetTradesFromDB
    \/ GetPositionsFromDB
    \/ FetchLiveAndGroup
    \/ StartSymbol
    \/ ReplayFill
    \/ FinishSymbol
    \/ Return
    \/ LoadPositionsSettles
    \/ StartEditing
    \/ ChangeEditValues
    \/ CancelEditing
    \/ SaveEdits
    \/ UpdateSettles

SpecApp == InitApp /\ [][NextApp]_vars

\* ------------------------------------------------ the replay of one symbol

\* Lots around the guards of the averages and percentages: a quantity or a
\* price of 0 next to fills that have both.
GuardLots == [side : Sides, quantity : {0, 1, 2}, price : {0, 100}]

\* positionAggregator.ts:39-46 and 119-126: calculatePositionsForSymbol has
\* been called for the one symbol of the store with the symbol's fills sorted,
\* both selects having returned their rows and the feed an empty list.
InputsBuilder ==
    /\ \/ \E n \in 1..MaxFills : \E f \in [1..n -> Lots] :
             tradesTable = NumericTable(n, f)
       \/ \E n \in 1..MaxFills : \E f \in [1..n -> GuardLots] :
             tradesTable = NumericTable(n, f)
    /\ positionsTable = <<>>
    /\ liveFeed = EmptyFeed
InitBuilder ==
    /\ InputsBuilder
    /\ NothingLoaded
    /\ pc = "replay"
    /\ tradesSelect = "ok"
    /\ positionsSelect = "ok"
    /\ dbTrades = tradesTable
    /\ existingPositions = positionsTable
    /\ livePositions = fetchOpenPositions(liveFeed)
    /\ symbolQueue = <<>>
    /\ symbol = "ETH"
    /\ trades = sortedTrades(groupTradesBySymbol(dbTrades, "ETH"))
    /\ idx = 1
    /\ currentPosition = <<>>
    /\ runningQuantity = 0
    /\ totalEntryCost = 0
    /\ totalExitRevenue = 0
    /\ realizedPnl = RInt(0)
    /\ fillsCount = 0
    /\ fills = <<>>
    /\ positions = <<>>
    /\ builderPositions = <<>>
    /\ allPositions = <<>>
    /\ result = <<>>
    /\ error = NoValue

NextBuilder ==
    \/ ReplayFill
    \/ FinishSymbol
    \/ Return

SpecBuilder == InitBuilder /\ [][NextBuilder]_vars

\* ------------------------------------------ overlapping calls of loadPositions

\* The calls of loadPositions that are followed.
MaxRuns == 3

\* The trades table after n buys of one unit of ETH, one a second, newest first.
BuyTable(n) ==
    [k \in 1..n |-> DBTradeRow(n - k + 1, "ETH", "BUY", 1, 100, 1000 * (n - k + 1))]

\* positionAggregator.ts:19-64 and 114-276 for a store of buys of one symbol,
\* no persisted position and an empty feed: the list the call resolves with
\* is one open LONG position of all the fills, or the empty list.
positionsOfBuys(rows) ==
    IF rows = <<>> THEN <<>>
    ELSE LET ts == sortedTrades(rows)
             fs == [k \in 1..Len(ts) |-> tradeFill(ts[k])]
             cur == [id |-> <<"pos", ts[1].symbol, ts[1].entry_date>>,
                     side |-> SideOfOpeningFill(TRUE),
                     openedAt |-> ts[1].entry_date]
         IN  <<openPositionOf(cur, ts[1].symbol, QuantityOf(fs), ValueOf(fs), 0,
                              RInt(0), Len(fs), fs)>>

\* No call of aggregateTradesIntoPositions() is followed step by step.
NotCalled ==
    /\ pc = "idle"
    /\ tradesSelect = "pending"
    /\ positionsSelect = "pending"
    /\ dbTrades = <<>>
    /\ existingPositions = <<>>
    /\ livePositions = <<>>
    /\ symbolQueue = <<>>
    /\ NoReplay
    /\ builderPositions = <<>>
    /\ allPositions = <<>>
    /\ result = <<>>
    /\ error = NoValue

InitOverlap ==
    /\ \E n \in 0..MaxFills : tradesTable = BuyTable(n)
    /\ positionsTable = <<>>
    /\ liveFeed = EmptyFeed
    /\ NothingLoaded
    /\ NotCalled

\* unnamed/part_006:33-34 and unnamed/part_001:41-58: a fetch of the trades
\* has settled, after its sync wrote a new fill or none; lighterTrades is a new
\* array, so the effect runs loadPositions, which returns at once without a
\* trade and otherwise sets positionsLoading and calls the aggregation.
LighterTradesChange ==
    /\ Len(loadRuns) < MaxRuns
    /\ \E grown \in BOOLEAN :
          /\ grown => Len(tradesTable) < MaxFills
          /\ tradesTable' = IF grown THEN BuyTable(Len(tradesTable) + 1)
                            ELSE tradesTable
    /\ IF tradesTable' = <<>>
       THEN UNCHANGED <<loadRuns, positionsLoading>>
       ELSE /\ loadRuns' = Append(loadRuns, [stage |-> "pending", read |-> <<>>])
            /\ positionsLoading' = TRUE
    /\ UNCHANGED <<positionsTable, liveFeed, pc, fetched, symbolQueue, replay,
                   builderPositions, allPositions, result, error, caller, ui,
                   syncCall, tradeLinks, fetchCall, apiFeed>>

\* positionAggregator.ts:21 inside a pending call: the select of the trades
\* returns the rows of this moment, or an error; on an error the call
\* rejects, loadPositions logs it and clears positionsLoading
\* (unnamed/part_001:51-55).
RunReads ==
    /\ \E i \in 1..Len(loadRuns) : \E outcome \in {"ok", "error"} :
          LET r == getTradesFromDB(outcome, tradesTable) IN
          /\ loadRuns[i].stage = "pending"
          /\ loadRuns[i].read = <<>>
          /\ loadRuns' = [loadRuns EXCEPT ![i] =
                            IF r.threw THEN [@ EXCEPT !.stage = "rejected"]
                            ELSE [@ EXCEPT !.read = <<r.data>>]]
          /\ positionsLoading' = IF r.threw THEN FALSE ELSE positionsLoading
    /\ UNCHANGED <<env, pc, fetched, symbolQueue, replay, builderPositions,
                   allPositions, result, error, caller, ui, syncCall, tradeLinks,
                   fetchCall, apiFeed>>

\* unnamed/part_001:48-49 and 53-55: a call that has read its rows resolves
\* after its other awaits; setPositions takes its list and positionsLoading is
\* cleared.
RunResolves ==
    /\ \E i \in 1..Len(loadRuns) :
          /\ loadRuns[i].stage = "pending"
          /\ loadRuns[i].read # <<>>
          /\ loadRuns' = [loadRuns EXCEPT ![i].stage = "resolved"]
          /\ appPositions' = positionsOfBuys(loadRuns[i].read[1])
    /\ positionsLoading' = FALSE
    /\ UNCHANGED <<env, pc, fetched, symbolQueue, replay, builderPositions,
                   allPositions, result, error, caller, editingId, editValues,
                   saving, pending, updateOutcome, updateSettled, syncCall,
                   tradeLinks, fetchCall, apiFeed>>

NextOverlap ==
    \/ LighterTradesChange
    \/ RunReads
    \/ RunResolves

SpecOverlap == InitOverlap /\ [][NextOverlap]_vars

\* ------------------------------------------------ syncPositionsToDatabase

\* A key of an object literal and its value; a key whose value is undefined
\* is not sent to the store.
NoColumns == [c \in {} |-> c]
Column(name, v) == IF v = <<>> THEN NoColumns ELSE name :> v[1]

\* Mutant of syncUpdates: the update also sends the journal and the category.
syncUpdates_WithAnnotations(position) ==
    Column("closed_at", position.closedAt)
    @@ Column("realized_pnl_percent", position.realizedPnlPercent)
    @@ [status |-> position.status, total_quantity |-> position.totalQuantity,
        realized_pnl |-> position.realizedPnl, fills_count |-> position.fillsCount,
        journal |-> position.journal, category |-> position.category]
\* positionAggregator.ts:351-358: the columns of the update
syncUpdates(position) ==
    Column("closed_at", position.closedAt)
    @@ Column("realized_pnl_percent", position.realizedPnlPercent)
    @@ [status |-> position.status, total_quantity |-> position.totalQuantity,
        realized_pnl |-> position.realizedPnl, fills_count |-> position.fillsCount]

\* positionAggregator.ts:325-344: dbPosition, the row to insert
dbPositionOf(position) ==
    syncUpdates(position)
    @@ [id |-> position.id, symbol |-> position.symbol,
        opened_at |-> <<position.openedAt>>,
        journal |-> position.journal, category |-> position.category]

\* positionAggregator.ts:583-599: returns null without a client; the insert
\* fails on an error and on an id the table holds (id is the table's key,
\* line 626), and createPosition throws; else the row is in the table
createPosition(outcome, table, row) ==
    IF outcome = "notConfigured" THEN [threw |-> FALSE, table |-> table]
    ELSE IF outcome = "error" \/ \E k \in 1..Len(table) : table[k].id = row.id
         THEN [threw |-> TRUE, table |-> table]
         ELSE [threw |-> FALSE, table |-> Append(table, row)]

\* positionAggregator.ts:601-617 called with the columns of line 351: the
\* columns sent replace those of the rows with id = positionId
updatePositionColumns(outcome, table, positionId, updates) ==
    IF outcome = "notConfigured" THEN [threw |-> FALSE, table |-> table]
    ELSE IF outcome = "error" THEN [threw |-> TRUE, table |-> table]
    ELSE [threw |-> FALSE,
          table |-> [k \in 1..Len(table) |->
                       IF table[k].id = positionId
                       THEN updates @@ table[k] ELSE table[k]]]

\* positionAggregator.ts:636-649 for the first n fills of the list: the
\* position_id of the trade with id = fill.id becomes positionId
RECURSIVE linkTradesToPosition(_, _, _, _)
linkTradesToPosition(links, fs, n, positionId) ==
    IF n = 0 THEN links
    ELSE LET before == linkTradesToPosition(links, fs, n - 1, positionId)
         IN  {l \in before : l[1] # fs[n].id} \cup {<<fs[n].id, positionId>>}

\* Persisted rows for the sync: those of MatchingPositionsTables, and a closed
\* row whose id an open position opened at the same time computes afresh.
SyncPositionsTables ==
    MatchingPositionsTables
    \cup {<<DBPositionRow("ETH", "closed", <<1000>>, "note", "Swing")>>}
InitSync ==
    /\ \E n \in 0..MaxFills : \E f \in [1..n -> Stamps] :
          NewestFirst(n, f) /\ tradesTable = MixedTable(n, f)
    /\ positionsTable \in SyncPositionsTables
    /\ liveFeed = EmptyFeed
    /\ NothingLoaded
    /\ Called

\* positionAggregator.ts:323: syncPositionsToDatabase is called with the list
\* the aggregation resolved with
CallSync ==
    /\ pc = "resolved"
    /\ syncCall.stage = "idle"
    /\ syncCall' = [stage |-> "running", queue |-> result[1], synced |-> <<>>]
    /\ UNCHANGED <<env, pc, fetched, symbolQueue, replay, builderPositions,
                   allPositions, result, error, caller, ui, loadRuns,
                   positionsLoading, tradeLinks, fetchCall, apiFeed>>

\* positionAggregator.ts:324-367: one iteration of the loop.  The insert is
\* tried; if createPosition throws the update is tried; then the fills are
\* linked one by one.  An error of the update or of a link rejects the call
\* with what was written before it.  The list is not empty, so the store has
\* a client (without one the selects return no rows and the list is empty).
SyncPosition ==
    /\ syncCall.stage = "running"
    /\ syncCall.queue # <<>>
    /\ \E insertMeets, updateMeets \in {"ok", "error"} :
       \E failingLink \in 0..Len(Head(syncCall.queue).fills) :
          LET position == Head(syncCall.queue)
              c == createPosition(insertMeets, positionsTable,
                                  dbPositionOf(position))
              u == IF c.threw
                   THEN updatePositionColumns(updateMeets, positionsTable,
                                              position.id, syncUpdates(position))
                   ELSE c
              linked == IF failingLink = 0 THEN Len(position.fills)
                        ELSE failingLink - 1
              threw == u.threw \/ failingLink # 0
          IN  /\ ~c.threw => updateMeets = "ok"
              /\ u.threw => failingLink = 0
              /\ positionsTable' = u.table
              /\ tradeLinks' = IF u.threw THEN tradeLinks
                               ELSE linkTradesToPosition(tradeLinks, position.fills,
                                                         linked, position.id)
              /\ syncCall' = IF threw THEN [syncCall EXCEPT !.stage = "rejected"]
                             ELSE [syncCall EXCEPT
                                      !.queue = Tail(@),
                                      !.synced = Append(@, position)]
    /\ UNCHANGED <<tradesTable, liveFeed, pc, fetched, symbolQueue, replay,
                   builderPositions, allPositions, result, error, caller, ui,
                   loadRuns, positionsLoading, fetchCall, apiFeed>>

\* positionAggregator.ts:367-368: the loop has ended and the call resolves
SyncReturns ==
    /\ syncCall.stage = "running"
    /\ syncCall.queue = <<>>
    /\ syncCall' = [syncCall EXCEPT !.stage = "resolved"]
    /\ UNCHANGED <<env, pc, fetched, symbolQueue, replay, builderPositions,
                   allPositions, result, error, caller, ui, loadRuns,
                   positionsLoading, tradeLinks, fetchCall, apiFeed>>

NextSync ==
    \/ GetTradesFromDB
    \/ GetPositionsFromDB
    \/ FetchLiveAndGroup
    \/ StartSymbol
    \/ ReplayFill
    \/ FinishSymbol
    \/ Return
    \/ CallSync
    \/ SyncPosition
    \/ SyncReturns

SpecSync == InitSync /\ [][NextSync]_vars

\* --------------------------------------------------------- fetchLighterTrades

\* The trade ids of the exchange.
MaxTradeId == 3

\* A trade of the exchange's history: a buy of one unit of market 0, trade k
\* at second k.
ApiTrade(k) ==
    [trade_id |-> k, market_id |-> <<0>>, isBuy |-> TRUE, price |-> 100, size |-> 1,
     timestamp |-> 1000 * k]
\* The trades with the ids of the set, newest first (sort_by=timestamp).
RECURSIVE ApiTrades(_)
ApiTrades(ids) ==
    IF ids = {} THEN <<>>
    ELSE LET top == CHOOSE k \in ids : \A j \in ids : j <= k
         IN  <<ApiTrade(top)>> \o ApiTrades(ids \ {top})

\* lighterApi.ts:40-60
transformToDBTrade(trade) ==
    DBTradeRow(trade.trade_id, getSymbolFromMarketId(trade.market_id),
               IF trade.isBuy THEN "BUY" ELSE "SELL", trade.size, trade.price,
               trade.timestamp)

\* lighterApi.ts:66-101: the columns of a Trade the model holds
dbTradeToAppTrade(dbTrade) ==
    [id |-> dbTrade.id, symbol |-> dbTrade.symbol, type |-> dbTrade.type,
     entryPrice |-> dbTrade.entry_price, quantity |-> dbTrade.quantity,
     entryDate |-> dbTrade.entry_date]

\* lighterApi.ts:19-35: throws when the call fails or is not ok
fetchTradeHistoryFromAPI(feed) ==
    IF feed.kind = "ok" THEN [threw |-> FALSE, trades |-> feed.trades]
    ELSE [threw |-> TRUE, trades |-> <<>>]

\* positionAggregator.ts:503-520: the greatest trade_id of the table, and
\* null (<<>>) without a row, without a client and on an error of the select
getLatestTradeId(outcome, table) ==
    IF outcome # "ok" \/ table = <<>> THEN <<>>
    ELSE <<CHOOSE k \in {table[j].id : j \in 1..Len(table)} :
              \A j \in 1..Len(table) : table[j].id <= k>>

\* The rows of the set as the select of the trades returns them, newest first.
RECURSIVE TradesNewestFirst(_)
TradesNewestFirst(rows) ==
    IF rows = {} THEN <<>>
    ELSE LET top == CHOOSE r \in rows : \A q \in rows : q.entry_date <= r.entry_date
         IN  <<top>> \o TradesNewestFirst(rows \ {top})

\* positionAggregator.ts:486-501: rows are inserted, or replace the row of
\* their trade_id; throws on an error
upsertTrades(outcome, table, rows) ==
    IF outcome = "notConfigured" \/ rows = <<>> THEN [threw |-> FALSE, table |-> table]
    ELSE IF outcome = "error" THEN [threw |-> TRUE, table |-> table]
    ELSE [threw |-> FALSE,
          table |-> TradesNewestFirst(
                       {r \in Range(table) : \A k \in 1..Len(rows) : rows[k].id # r.id}
                       \cup Range(rows))]

\* lighterApi.ts:130-132: newTrades
newTradesOf(apiTrades, latestStoredId) ==
    IF latestStoredId = <<>> THEN apiTrades
    ELSE SelectSeqBy(apiTrades, {t \in Range(apiTrades) : t.trade_id > latestStoredId[1]})

\* lighterApi.ts:107-148: what the call did to the table, the ids it wrote,
\* the count it resolves with, and whether it threw instead
syncTradesToDB(cfg, feed, latestMeets, upsertMeets, table) ==
    LET unchanged == [threw |-> FALSE, count |-> 0, table |-> table, written |-> {}]
        api == fetchTradeHistoryFromAPI(feed)
        newTrades == newTradesOf(api.trades, getLatestTradeId(latestMeets, table))
        rows == [k \in 1..Len(newTrades) |-> transformToDBTrade(newTrades[k])]
        up == upsertTrades(upsertMeets, table, rows)
    IN  IF ~cfg.supabase \/ ~cfg.token THEN unchanged
        ELSE IF api.threw THEN [unchanged EXCEPT !.threw = TRUE]
        ELSE IF api.trades = <<>> \/ newTrades = <<>> THEN unchanged
        ELSE IF up.threw THEN [unchanged EXCEPT !.threw = TRUE]
        ELSE [threw |-> FALSE, count |-> Len(newTrades), table |-> up.table,
              written |-> {rows[k].id : k \in 1..Len(rows)}]

\* fetchLighterTrades() has been called: the settings of lighterApi.ts:12-13
\* and positionAggregator.ts:407, the stored trades and the exchange's answer.
InitFetch ==
    /\ \E ids \in SUBSET (1..MaxTradeId) :
          tradesTable = [k \in 1..Len(ApiTrades(ids)) |->
                            transformToDBTrade(ApiTrades(ids)[k])]
    /\ positionsTable = <<>>
    /\ liveFeed = EmptyFeed
    /\ \/ \E ids \in SUBSET (1..MaxTradeId) :
             apiFeed = [kind |-> "ok", trades |-> ApiTrades(ids)]
       \/ apiFeed = [kind |-> "notOk", trades |-> <<>>]
    /\ \E token, client \in BOOLEAN :
          fetchCall = [NoFetch EXCEPT !.stage = "called", !.token = token,
                                      !.supabase = client,
                                      !.stored = {tradesTable[k].id :
                                                    k \in 1..Len(tradesTable)}]
    /\ NotCalled
    /\ previous = <<>>
    /\ appPositions = <<>>
    /\ editingId = <<>>
    /\ editValues = [journal |-> "", category |-> ""]
    /\ saving = FALSE
    /\ pending = <<>>
    /\ updateOutcome = "pending"
    /\ updateSettled = "none"
    /\ loadRuns = <<>>
    /\ positionsLoading = FALSE
    /\ syncCall = NoSync
    /\ tradeLinks = {}

\* lighterApi.ts:155-162: with a token and a client the sync is awaited and an
\* error of it is caught and logged
FetchSyncs ==
    /\ fetchCall.stage = "called"
    /\ \E latestMeets, upsertMeets \in {"ok", "error"} :
          LET sync == syncTradesToDB(fetchCall, apiFeed, latestMeets, upsertMeets,
                                     tradesTable)
          IN  /\ tradesTable' = sync.table
              /\ fetchCall' = [fetchCall EXCEPT !.stage = "synced",
                                                !.written = sync.written,
                                                !.count = sync.count,
                                                !.syncThrew = sync.threw]
    /\ UNCHANGED <<positionsTable, liveFeed, pc, fetched, symbolQueue, replay,
                   builderPositions, allPositions, result, error, caller, ui,
                   loadRuns, positionsLoading, syncCall, tradeLinks, apiFeed>>

\* lighterApi.ts:164-193: with a client the trades are read from the table;
\* without one and with a token they are fetched from the exchange; else the
\* list is empty.  An error of the read or of the fetch rejects the call.
FetchReturns ==
    /\ fetchCall.stage = "synced"
    /\ \E readMeets \in {"ok", "error"} :
          LET read == getTradesFromDB(readMeets, tradesTable)
              api == fetchTradeHistoryFromAPI(apiFeed)
              apiList == [k \in 1..Len(api.trades) |->
                            dbTradeToAppTrade(transformToDBTrade(api.trades[k]))]
              dbList == [k \in 1..Len(read.data) |-> dbTradeToAppTrade(read.data[k])]
              threw == IF fetchCall.supabase THEN read.threw
                       ELSE fetchCall.token /\ api.threw
          IN  /\ ~fetchCall.supabase => readMeets = "ok"
              /\ fetchCall' =
                    [fetchCall EXCEPT
                       !.stage = IF threw THEN "rejected" ELSE "resolved",
                       !.readThrew = fetchCall.supabase /\ read.threw,
                       !.trades = IF threw THEN <<>>
                                  ELSE IF fetchCall.supabase THEN dbList
                                  ELSE IF fetchCall.token THEN apiList
                                  ELSE <<>>]
    /\ UNCHANGED <<env, pc, fetched, symbolQueue, replay, builderPositions,
                   allPositions, result, error, caller, ui, loadRuns,
                   positionsLoading, syncCall, tradeLinks, apiFeed>>

NextFetch ==
    \/ FetchSyncs
    \/ FetchReturns

SpecFetch == InitFetch /\ [][NextFetch]_vars

\* ------------------------------------------------------------------ claims

\* A fill increases a position when its direction is the position's side.
IsIncreasingFill(f, side) ==
    (side = "LONG" /\ f.type = "long") \/ (side = "SHORT" /\ f.type = "short")
IncreasingFills(fs, side) ==
    SelectSeqBy(fs, {f \in Range(fs) : IsIncreasingFill(f, side)})
ReducingFills(fs, side) ==
    SelectSeqBy(fs, {f \in Range(fs) : ~IsIncreasingFill(f, side)})
\* Value-weighted average price of the fills fs.
WeightedAverage(fs) == Rat(ValueOf(fs), QuantityOf(fs))
\* Increasing quantity minus reducing quantity.
NetQuantity(fs, side) ==
    QuantityOf(IncreasingFills(fs, side)) - QuantityOf(ReducingFills(fs, side))

\* The realized P&L of the fills fs when every reducing fill is priced against
\* the weighted average entry price of the increasing fills before it.
RECURSIVE RealizedAgainstAverageEntry(_, _, _)
RealizedAgainstAverageEntry(fs, n, side) ==
    IF n = 0 THEN RInt(0)
    ELSE LET f == fs[n]
             before == SubSeq(fs, 1, n - 1)
             A == WeightedAverage(IncreasingFills(before, side))
             rest == RealizedAgainstAverageEntry(fs, n - 1, side)
         IN  IF IsIncreasingFill(f, side) THEN rest
             ELSE IF side = "LONG"
                  THEN RAdd(rest, RMul(RSub(RInt(f.entryPrice), A), RInt(f.quantity)))
                  ELSE RAdd(rest, RMul(RSub(A, RInt(f.entryPrice)), RInt(f.quantity)))

\* C1: during the replay and in every emitted position, the realized P&L is the
\* sum over the reducing fills of (price - A) x quantity for a LONG and
\* (A - price) x quantity for a SHORT, A being the weighted average entry price
\* of the increasing fills up to that fill.
C1_RealizedPnlAgainstAverageEntry ==
    /\ currentPosition # <<>> =>
          realizedPnl = RealizedAgainstAverageEntry(fills, Len(fills),
                                                    currentPosition[1].side)
    /\ \A k \in 1..Len(positions) :
          positions[k].realizedPnl =
             RealizedAgainstAverageEntry(positions[k].fills,
                                         Len(positions[k].fills), positions[k].side)

\* Every position the Builder has emitted so far, in the order of emission.
Emitted == builderPositions \o positions
\* The positions of symbol sym in the list ps, in the order of the list.
OfSymbol(ps, sym) == SelectSeqBy(ps, {q \in Range(ps) : q.symbol = sym})
RowsOfSymbol(rows, sym) == {r \in Range(rows) : r.symbol = sym}
IsAscending(fs) == \A k \in 1..(Len(fs) - 1) : fs[k].entryDate <= fs[k + 1].entryDate

\* C2: when aggregate() resolves, every fill of the store is in the fill list
\* of exactly one returned position, a position of the fill's symbol; the fill
\* lists are in ascending timestamp order; fillsCount is the length of the fill
\* list and, per symbol, the fillsCount sum is the number of the symbol's fills.
C2_Conservation ==
    pc = "resolved" =>
      LET ps == result[1] IN
      /\ \A t \in Range(dbTrades) :
            /\ Cardinality({kj \in UNION {{<<k, j>> : j \in 1..Len(ps[k].fills)} :
                                          k \in 1..Len(ps)} :
                              ps[kj[1]].fills[kj[2]].id = t.id}) = 1
            /\ \E k \in 1..Len(ps) :
                  /\ ps[k].symbol = t.symbol
                  /\ \E j \in 1..Len(ps[k].fills) : ps[k].fills[j] = tradeFill(t)
      /\ \A k \in 1..Len(ps) :
            /\ IsAscending(ps[k].fills)
            /\ ps[k].fillsCount = Len(ps[k].fills)
      /\ \A sym \in Symbols :
            SumSeq([k \in 1..Len(ps) |->
                      IF ps[k].symbol = sym THEN ps[k].fillsCount ELSE 0])
               = Cardinality(RowsOfSymbol(dbTrades, sym))

\* C2 witness: a symbol with two fills at one timestamp and a later one, spread
\* over two returned positions, next to a position of the other symbol.
C2_Witness ==
    /\ pc = "resolved"
    /\ Len(dbTrades) = MaxFills
    /\ \E k, j \in 1..Len(result[1]) :
          /\ k # j
          /\ result[1][k].symbol = result[1][j].symbol
          /\ result[1][k].fillsCount >= 2
          /\ result[1][k].fills[1].entryDate = result[1][k].fills[2].entryDate

\* C3: every closed position's net quantity (increasing minus reducing fill
\* quantities) is within epsilon of zero.
C3_ClosedPositionsAreFlat ==
    \A k \in 1..Len(positions) :
        positions[k].status = "closed" =>
           Abs(NetQuantity(positions[k].fills, positions[k].side)) * EpsDen <= EpsNum

\* C4: the Builder's list for a symbol is closed positions followed by at most
\* one open position, which is the last; a position starts only after the one
\* before it on the symbol has closed; the returned list holds at most one open
\* position per symbol, the symbol's latest.
C4_ClosedThenAtMostOneOpen ==
    /\ \A k \in 1..Len(positions) : positions[k].status = "closed"
    /\ pc = "replay" =>
          LET sp == symbolPositions IN
          /\ \A k \in 1..Len(sp) : sp[k].status = "open" => k = Len(sp)
          /\ \A k \in 1..(Len(sp) - 1) :
                sp[k].closedAt # <<>> /\ sp[k].closedAt[1] <= sp[k + 1].openedAt
    /\ \A sym \in Symbols :
          LET sp == OfSymbol(builderPositions, sym) IN
          \A k \in 1..Len(sp) : sp[k].status = "open" => k = Len(sp)
    /\ pc = "resolved" =>
          \A k, j \in 1..Len(result[1]) :
             (result[1][k].status = "open" /\ result[1][j].symbol = result[1][k].symbol
              /\ j # k)
             => /\ result[1][j].status = "closed"
                /\ result[1][j].openedAt <= result[1][k].openedAt

\* C4 witness: the replay of a symbol has ended with a closed position
\* followed by an open one.
C4_Witness ==
    /\ pc = "replay"
    /\ idx > Len(trades)
    /\ Len(symbolPositions) >= 2
    /\ symbolPositions[Len(symbolPositions)].status = "open"
    /\ symbolPositions[1].status = "closed"

\* The position p was opened by increasing fills only and then fully closed by
\* one reducing fill of the whole quantity held.
IsSingleFullClose(p) ==
    LET n == Len(p.fills) IN
    /\ p.status = "closed"
    /\ n >= 2
    /\ \A k \in 1..(n - 1) : IsIncreasingFill(p.fills[k], p.side)
    /\ ~IsIncreasingFill(p.fills[n], p.side)
    /\ p.fills[n].quantity = QuantityOf(SubSeq(p.fills, 1, n - 1))
    /\ ValueOf(SubSeq(p.fills, 1, n - 1)) > 0

\* C5: a position opened at weighted average entry price E with quantity Q and
\* fully closed by one reducing fill at price X has realized P&L (X - E) x Q
\* if LONG and (E - X) x Q if SHORT, and realized P&L percent
\* = realized P&L / total entry cost x 100.
C5_FullCloseSignConvention ==
    \A k \in 1..Len(Emitted) :
       LET p == Emitted[k]
           n == Len(p.fills)
           entries == SubSeq(p.fills, 1, n - 1)
           E == WeightedAverage(entries)
           Q == RInt(QuantityOf(entries))
           X == RInt(p.fills[n].entryPrice)
           pnl == IF p.side = "LONG" THEN RMul(RSub(X, E), Q) ELSE RMul(RSub(E, X), Q)
       IN  IsSingleFullClose(p) =>
             /\ p.realizedPnl = pnl
             /\ p.realizedPnlPercent =
                   <<RMul(RDiv(pnl, RInt(ValueOf(entries))), RInt(100))>>

\* C5 witness: a position opened by two fills at different prices and fully
\* closed by a third fill, with a loss or a gain.
C5_Witness ==
    \E k \in 1..Len(Emitted) :
       /\ IsSingleFullClose(Emitted[k])
       /\ Len(Emitted[k].fills) = 3
       /\ Emitted[k].fills[1].entryPrice # Emitted[k].fills[2].entryPrice
       /\ Emitted[k].realizedPnl # RInt(0)

\* C6: aggregate() rejects only when the select of the fills returned an error.
C6_OnlyFillFetchFailureRejects ==
    pc = "rejected" => tradesSelect = "error" /\ error = "tradesError"

\* C7: when the select of the fills returns an error, aggregate() rejects with
\* that error and resolves with no list, empty or partial.
C7_FillFetchFailureIsFatal ==
    tradesSelect = "error" =>
       /\ pc = "rejected"
       /\ error = "tradesError"
       /\ result = <<>>
       /\ allPositions = <<>>

\* C7 witness: the store holds fills and its select has returned an error.
C7_Witness ==
    /\ tradesSelect = "error"
    /\ pc = "rejected"
    /\ Len(tradesTable) = MaxFills

\* The feed answered with a list of positions (possibly empty).
IsPositionList(feed) ==
    /\ feed.kind \in {"array", "positionsObject", "positionsArray", "dataArray"}
    /\ \A k \in 1..Len(feed.items) : feed.items[k].side \in {"long", "short"}

\* C8: when the live feed fails (network error, non-OK response, or a response
\* that is not a list of positions) aggregate() is not aborted by it and
\* returns every position of the Builder, as the Builder derived it.
C8_LiveFeedFailureDoesNotAbort ==
    ~IsPositionList(liveFeed) =>
       /\ error # "TypeError"
       /\ pc = "resolved" => result[1] = sortByOpenedAtDesc(builderPositions)

\* The rows of the persisted positions that match a closed position of symbol
\* sym opened at time opened: same symbol, open time less than 1 second away.
ClosedMatches(rows, sym, opened) ==
    SelectSeqBy(rows, {r \in Range(rows) :
                         /\ r.symbol = sym
                         /\ r.opened_at # <<>>
                         /\ Abs(r.opened_at[1] - opened) < 1000})
\* The rows that match an open position of symbol sym: same symbol, status open.
OpenMatches(rows, sym) ==
    SelectSeqBy(rows, {r \in Range(rows) : r.symbol = sym /\ r.status = "open"})
FreshId(p) == <<"pos", p.symbol, p.fills[1].entryDate>>
\* An empty journal or category reads as none.
CarriedText(x) == IF x = "" THEN NoValue ELSE x
\* p has the identity, journal and category of the first of the rows, or its
\* fresh identity and no journal or category when there is no row.
CarriesFrom(p, rows) ==
    IF rows # <<>>
    THEN /\ p.id = rows[1].id
         /\ p.journal = CarriedText(rows[1].journal)
         /\ p.category = CarriedText(rows[1].category)
    ELSE /\ p.id = FreshId(p)
         /\ p.journal = NoValue
         /\ p.category = NoValue
Returned == IF result = <<>> THEN <<>> ELSE result[1]

\* C9: a closed position takes the identity, journal and category of the
\* (first) persisted row of its symbol whose open time is less than 1 second
\* from its own, and keeps its fresh identity without journal or category when
\* no row matches.
C9_ClosedCarryOver ==
    \A p \in Range(Emitted) \cup Range(Returned) :
       p.status = "closed" =>
          CarriesFrom(p, ClosedMatches(existingPositions, p.symbol, p.openedAt))

\* C9 witness: a returned closed position carries journal "note" and an
\* identity that is not its fresh one, from a row 999 ms away.
C9_Witness ==
    \E p \in Range(Returned) :
       /\ p.status = "closed"
       /\ p.journal = "note"
       /\ p.id # FreshId(p)
       /\ p.openedAt = 1000

\* C10: a trailing open position takes the identity, journal and category of
\* the (first) persisted row of its symbol with status open, and keeps its
\* fresh identity without journal or category when there is none; nothing is
\* carried from a row of another symbol or a closed row.
C10_OpenCarryOver ==
    \A p \in Range(Emitted) \cup Range(Returned) :
       p.status = "open" =>
          /\ CarriesFrom(p, OpenMatches(existingPositions, p.symbol))
          /\ (p.journal # NoValue \/ p.category # NoValue) =>
                \E r \in Range(existingPositions) :
                   /\ r.symbol = p.symbol /\ r.status = "open"
                   /\ r.id = p.id /\ r.journal = p.journal /\ r.category = p.category

\* C10 witness: a returned open position carries the second persisted row, the
\* first being a closed row of the same symbol.
C10_Witness ==
    \E p \in Range(Returned) :
       /\ p.status = "open"
       /\ p.journal = "other"
       /\ Len(existingPositions) = 2
       /\ existingPositions[1].symbol = p.symbol
       /\ existingPositions[1].status = "closed"

\* C11: when the live feed gives an empty list, the returned positions are the
\* Builder's positions, field by field (total quantity, average entry price,
\* entry cost, realized P&L, ...), none with a live-overlay field; a closed
\* position is the Builder's and has no overlay field whatever the feed holds.
C11_NoLiveDataNoOverlay ==
    pc = "resolved" =>
       /\ livePositions = <<>> =>
             /\ result[1] = sortByOpenedAtDesc(builderPositions)
             /\ \A p \in Range(result[1]) : p.live = NoOverlay
       /\ \A p \in Range(result[1]) :
             p.status = "closed" =>
                p.live = NoOverlay /\ p \in Range(builderPositions)

\* C11 witness: the feed answered with an empty list and the returned list
\* holds an open position of quantity 10 and a closed one with a realized P&L.
C11_Witness ==
    /\ pc = "resolved"
    /\ liveFeed = EmptyFeed
    /\ \E p, q \in Range(result[1]) :
          /\ p.status = "open" /\ p.totalQuantity = 10
          /\ q.status = "closed" /\ q.realizedPnl # RInt(0)

\* The entries of the fetched list for the position p: the market identifier
\* resolves to p's symbol and the uppercased side is p's side.
LiveEntriesFor(p, lps) ==
    SelectSeqBy(lps, {e \in Range(lps) :
                        /\ getSymbolFromMarketId(e.market_id) = p.symbol
                        /\ toUpperCase(e.side) = p.side})
\* The returned open positions that have an entry in the fetched list.
Reconciled ==
    {p \in Range(Returned) :
        p.status = "open" /\ LiveEntriesFor(p, livePositions) # <<>>}
LiveEntryFor(p) == LiveEntriesFor(p, livePositions)[1]
\* The position as the Builder emitted it.
BuilderOf(p) == CHOOSE b \in Range(builderPositions) : b.fills = p.fills

\* C12: a returned open position with a live entry of its symbol and side has
\* the entry's size as total quantity and the entry's mark price, liquidation
\* price, margin, leverage, funding and unrealized P&L (each column that holds
\* a number is copied as that number).
C12_LiveOverlayCopiesEntry ==
    \A p \in Reconciled :
       LET e == LiveEntryFor(p) IN
       /\ e.size # <<>> => p.totalQuantity = e.size[1]
       /\ e.mark_price # <<>> => p.live.currentPrice = e.mark_price
       /\ e.liquidation_price # <<>> => p.live.liquidationPrice = e.liquidation_price
       /\ e.margin # <<>> => p.live.margin = e.margin
       /\ e.leverage # <<>> => p.live.leverage = e.leverage
       /\ e.funding # <<>> => p.live.funding = e.funding
       /\ e.unrealized_pnl # <<>> => p.live.unrealizedPnl = e.unrealized_pnl

\* C13: a reconciled open position has unrealized P&L percent
\* = unrealized P&L / margin x 100 when the entry's margin is a positive
\* number, and no unrealized P&L percent in every other case.
C13_UnrealizedPnlPercent ==
    \A p \in Reconciled :
       LET e == LiveEntryFor(p) IN
       IF e.margin # <<>> /\ e.margin[1] > 0
       THEN e.unrealized_pnl # <<>> =>
               p.live.unrealizedPnlPercent =
                  <<Rat(e.unrealized_pnl[1] * 100, e.margin[1])>>
       ELSE p.live.unrealizedPnlPercent = <<>>

\* Some numeric column of the entry does not parse.
HasMalformedColumn(e) ==
    <<>> \in {e.size, e.position_value, e.mark_price, e.liquidation_price,
              e.margin, e.leverage, e.funding, e.unrealized_pnl}

\* C14: when a column of the matching entry does not parse, that overlay field
\* is unset (the Builder's total quantity is kept for the size) and every
\* column that parses is applied with its number; a list of positions never
\* makes the reconciliation raise.
C14_MalformedNumericsPerField ==
    /\ IsPositionList(liveFeed) => error # "TypeError"
    /\ \A p \in Reconciled :
          LET e == LiveEntryFor(p) IN
          HasMalformedColumn(e) =>
             /\ p.totalQuantity = IF e.size = <<>> THEN BuilderOf(p).totalQuantity
                                  ELSE e.size[1]
             /\ p.live.positionSizeUsd = e.position_value
             /\ p.live.currentPrice = e.mark_price
             /\ p.live.liquidationPrice = e.liquidation_price
             /\ p.live.margin = e.margin
             /\ p.live.leverage = e.leverage
             /\ p.live.funding = e.funding
             /\ p.live.unrealizedPnl = e.unrealized_pnl

\* LONG for a buy, SHORT for a sell (a stored buy has type long).
SideOfFill(f) == IF f.type = "long" THEN "LONG" ELSE "SHORT"

\* C19: the side of the position under construction and of every emitted,
\* merged and returned position is the side of its opening fill (LONG for a
\* buy, SHORT for a sell), whatever fills followed.
C19_SideFixedAtCreation ==
    /\ currentPosition # <<>> => currentPosition[1].side = SideOfFill(fills[1])
    /\ \A p \in Range(Emitted) \cup Range(allPositions) \cup Range(Returned) :
          p.side = SideOfFill(p.fills[1])

\* C19 witness: a SHORT position is still under construction after a buy has
\* reduced it.
C19_Witness ==
    /\ currentPosition # <<>>
    /\ currentPosition[1].side = "SHORT"
    /\ Len(fills) >= 2
    /\ fills[Len(fills)].type = "long"
    /\ runningQuantity > 0

\* C20: a closed position has total quantity 0 and an open one a total quantity
\* above 0, as emitted by the Builder, after the live overlay and as returned.
C20_TotalQuantitySign ==
    \A p \in Range(Emitted) \cup Range(allPositions) \cup Range(Returned) :
       IF p.status = "closed" THEN p.totalQuantity = 0 ELSE p.totalQuantity > 0

\* C15: when a second call of aggregate() follows a first one and its reads of
\* the stores and of the feed end the same way, it returns a list equal to the
\* first call's, position by position and field by field.
C15_Idempotence ==
    (/\ pc = "resolved"
     /\ previous # <<>>
     /\ previous[1].tradesSelect = tradesSelect
     /\ previous[1].positionsSelect = positionsSelect)
    => result[1] = previous[1].result

\* C15 witness: both calls returned two positions or more, one with a journal
\* carried from a persisted row and one with the live overlay.
C15_Witness ==
    /\ pc = "resolved"
    /\ previous # <<>>
    /\ Len(result[1]) >= 2
    /\ Len(previous[1].result) >= 2
    /\ \E p, q \in Range(result[1]) :
          p.journal = "note" /\ q.live.currentPrice = <<105>>

\* C16: no step of a run of aggregate() changes a row of the fills table or of
\* the positions table (journal, category and fill linkage included).
C16_AggregateWritesNothing ==
    [][tradesTable' = tradesTable /\ positionsTable' = positionsTable]_vars

\* C16 witness: a run over a full fills table has returned a position with the
\* journal of a persisted row.
C16_Witness ==
    /\ pc = "resolved"
    /\ Len(tradesTable) = MaxFills
    /\ positionsTable # <<>>
    /\ \E p \in Range(result[1]) : p.journal = "note"

\* The indexes of the persisted position rows that a step changes.
RowsChanged == {k \in 1..Len(positionsTable) : positionsTable'[k] # positionsTable[k]}

\* C17: a step of the App leaves every fill row as it was and keeps the number
\* of position rows; it changes a position row only when an update is in
\* flight, then only the row whose id is the update's positionId, and in that
\* row nothing but journal and category.
C17_UpdateTouchesOneRow ==
    [][/\ tradesTable' = tradesTable
       /\ Len(positionsTable') = Len(positionsTable)
       /\ Cardinality(RowsChanged) <= 1
       /\ \A k \in RowsChanged :
             /\ pending # <<>>
             /\ positionsTable[k].id = pending[1].positionId
             /\ positionsTable'[k] =
                   [positionsTable[k] EXCEPT !.journal = positionsTable'[k].journal,
                                             !.category = positionsTable'[k].category]
      ]_vars

\* C17 witness: of two persisted rows the first has taken the journal and the
\* category of an update and the second has kept its own.
C17_Witness ==
    /\ updateSettled = "resolved"
    /\ Len(positionsTable) = 2
    /\ positionsTable[1].journal = "edited"
    /\ positionsTable[1].category = "Momentum"
    /\ positionsTable[1].status = "closed"
    /\ positionsTable[2].journal = "other"
    /\ positionsTable[2].category = "Scalp"

\* C18: when the write of an update settles with an error, the call rejects,
\* the positions in memory, the row being edited and the edit values stay as
\* they were and the saving flag is cleared; when it settles without one, the
\* call resolves, the positions of that id take the update, edit mode is left
\* and the saving flag is cleared; the journal or category of a position in
\* memory changes in no other step.
C18_FailedWriteKeepsEdit ==
    [][/\ (pending # <<>> /\ pending' = <<>>) =>
             /\ saving' = FALSE
             /\ IF updateOutcome' = "error"
                THEN /\ updateSettled' = "rejected"
                     /\ appPositions' = appPositions
                     /\ editingId' = editingId
                     /\ editValues' = editValues
                ELSE /\ updateSettled' = "resolved"
                     /\ editingId' = <<>>
                     /\ \A k \in 1..Len(appPositions) :
                           appPositions'[k] =
                              IF appPositions[k].id = pending[1].positionId
                              THEN [appPositions[k] EXCEPT
                                      !.journal = pending[1].updates.journal,
                                      !.category = pending[1].updates.category]
                              ELSE appPositions[k]
       /\ (appPositions # <<>> /\ appPositions' # appPositions) =>
             /\ pending # <<>>
             /\ pending' = <<>>
             /\ updateOutcome' = "ok"
      ]_vars

\* C18 witness: the write of an edited journal has failed; the position in
\* memory has its old journal, its row is still being edited with the typed
\* text, and the saving flag is cleared.
C18_Witness ==
    /\ updateSettled = "rejected"
    /\ updateOutcome = "error"
    /\ ~saving
    /\ editingId # <<>>
    /\ editValues.journal = "edited"
    /\ \E p \in Range(appPositions) :
          p.id = editingId[1] /\ p.journal = "note"

\* The number of places of the list s that hold x.
CountIn(s, x) == Cardinality({k \in 1..Len(s) : s[k] = x})
\* The lists s and t hold the same elements, each as many times.
SameElements(s, t) ==
    /\ Len(s) = Len(t)
    /\ \A k \in 1..Len(s) : CountIn(s, s[k]) = CountIn(t, s[k])

\* C21: the returned list holds the positions of all the symbols, ordered by
\* openedAt descending; the fills a symbol's replay walks are the symbol's fills
\* of the store in ascending timestamp order, whatever the order of the store.
C21_NewestFirstFromAscendingReplay ==
    /\ pc = "resolved" =>
          /\ SameElements(Returned, allPositions)
          /\ \A i, j \in 1..Len(Returned) :
                i < j => Returned[i].openedAt >= Returned[j].openedAt
    /\ pc = "replay" =>
          /\ SameElements(trades, groupTradesBySymbol(dbTrades, symbol))
          /\ \A k \in 1..(Len(trades) - 1) :
                trades[k].entry_date <= trades[k + 1].entry_date
\* C21 witness: the store lists a later fill before an earlier one, positions
\* of two symbols were pushed oldest first, and the list has been returned.
C21_Witness ==
    /\ pc = "resolved"
    /\ \E k \in 1..(Len(dbTrades) - 1) :
          dbTrades[k].entry_date > dbTrades[k + 1].entry_date
    /\ \E k \in 1..(Len(allPositions) - 1) :
          /\ allPositions[k].openedAt < allPositions[k + 1].openedAt
          /\ allPositions[k].symbol # allPositions[k + 1].symbol
    /\ Returned # allPositions

\* The row of the store the fill f was made from.
RowOf(f) == CHOOSE t \in Range(dbTrades) : t.id = f.id
\* The fills of fs that the replay of a position of the given side adds to the
\* position (it tests the row's side column), and those it takes off it.
ReplayIncreasing(fs, side) ==
    SelectSeqBy(fs, {f \in Range(fs) : isAddingToPosition(side, RowOf(f).side = "BUY")})
ReplayReducing(fs, side) ==
    SelectSeqBy(fs, {f \in Range(fs) : ~isAddingToPosition(side, RowOf(f).side = "BUY")})

C23_CostAndRevenueSums ==
    /\ \A k \in 1..Len(Emitted) :
          LET p == Emitted[k]
              red == ReducingFills(p.fills, p.side)
          IN  /\ p.totalEntryCost = ValueOf(IncreasingFills(p.fills, p.side))
              /\ p.totalExitRevenue = ValueOf(red)
              /\ red = <<>> => p.totalExitRevenue = 0 /\ p.realizedPnl = RInt(0)
    /\ currentPosition # <<>> =>
          /\ totalEntryCost = ValueOf(IncreasingFills(fills, currentPosition[1].side))
          /\ totalExitRevenue = ValueOf(ReducingFills(fills, currentPosition[1].side))
\* C23 witness: a closed position with a reducing fill and revenue, next to an
\* open position of the same symbol without a reducing fill.
C23_Witness ==
    \E k, j \in 1..Len(Emitted) :
       /\ Emitted[k].status = "closed"
       /\ Emitted[k].totalExitRevenue > 0
       /\ Emitted[k].totalExitRevenue # Emitted[k].totalEntryCost
       /\ Emitted[j].status = "open"
       /\ ReducingFills(Emitted[j].fills, Emitted[j].side) = <<>>
       /\ Emitted[j].totalEntryCost > 0

\* C24: no average price and no percentage of an emitted position is the
\* outcome of a division by zero, fills of quantity 0 or price 0 included: the
\* average entry price is 0 when the increasing fills have total quantity 0,
\* the average exit price is undefined when the reducing fills have total
\* quantity 0, a closed position's realized P&L percentage is 0 when its entry
\* cost is 0, and an open position's is undefined when its entry cost is not
\* positive.
C24_ZeroGuards ==
    /\ ~IsNaN(realizedPnl)
    /\ \A k \in 1..Len(Emitted) :
          LET p == Emitted[k] IN
          /\ ~IsNaN(p.avgEntryPrice)
          /\ p.avgExitPrice # <<>> => ~IsNaN(p.avgExitPrice[1])
          /\ p.realizedPnlPercent # <<>> => ~IsNaN(p.realizedPnlPercent[1])
          /\ ~IsNaN(p.realizedPnl)
          /\ QuantityOf(IncreasingFills(p.fills, p.side)) = 0 =>
                p.avgEntryPrice = RInt(0)
          /\ QuantityOf(ReducingFills(p.fills, p.side)) = 0 => p.avgExitPrice = <<>>
          /\ (p.status = "closed" /\ p.totalEntryCost = 0) =>
                p.realizedPnlPercent = <<RInt(0)>>
          /\ (p.status = "open" /\ p.totalEntryCost <= 0) =>
                p.realizedPnlPercent = <<>>
\* C24 witness: a position of one fill of quantity 0, and a closed position
\* bought at price 0 and sold at a price, its cost 0 and its P&L not.
C24_Witness ==
    \E k, j \in 1..Len(Emitted) :
       /\ QuantityOf(Emitted[j].fills) = 0
       /\ Emitted[j].fills[1].entryPrice > 0
       /\ Emitted[k].status = "closed"
       /\ Emitted[k].totalEntryCost = 0
       /\ Emitted[k].realizedPnl # RInt(0)
       /\ Emitted[k].avgExitPrice # <<>>

\* The realized P&L the replay of the fills fs alone arrives at after n fills,
\* starting from zero: every reducing fill is priced against the entry cost of
\* these fills over the quantity these fills hold before it.
RECURSIVE RealizedFromOwnFills(_, _, _)
RealizedFromOwnFills(fs, n, side) ==
    IF n = 0 THEN RInt(0)
    ELSE LET f == fs[n]
             before == SubSeq(fs, 1, n - 1)
             avg == Rat(ValueOf(IncreasingFills(before, side)),
                        NetQuantity(before, side))
             rest == RealizedFromOwnFills(fs, n - 1, side)
         IN  IF IsIncreasingFill(f, side) THEN rest
             ELSE IF side = "LONG"
                  THEN RAdd(rest, RMul(RSub(RInt(f.entryPrice), avg), RInt(f.quantity)))
                  ELSE RAdd(rest, RMul(RSub(avg, RInt(f.entryPrice)), RInt(f.quantity)))
\* The fill lists of the positions ps one after the other.
RECURSIVE FillsOf(_)
FillsOf(ps) == IF ps = <<>> THEN <<>> ELSE Head(ps).fills \o FillsOf(Tail(ps))

\* C25: a position starts from zero.  Its values are those of its own fills:
\* it opens at its first fill's timestamp, a closed one closes at its last
\* fill's timestamp, its count is the number of its fills, its cost, revenue
\* and realized P&L are what its fills alone give, and the fills of the
\* symbol's positions are the symbol's fills in the order of the replay, each
\* in one position; the running values of the position being replayed are
\* those of the fills replayed since it opened.
C25_PositionStartsFresh ==
    /\ \A k \in 1..Len(Emitted) :
          LET p == Emitted[k] IN
          /\ p.fills # <<>>
          /\ p.openedAt = p.fills[1].entryDate
          /\ p.status = "closed" => p.closedAt = <<p.fills[Len(p.fills)].entryDate>>
          /\ p.fillsCount = Len(p.fills)
          /\ p.totalEntryCost = ValueOf(IncreasingFills(p.fills, p.side))
          /\ p.totalExitRevenue = ValueOf(ReducingFills(p.fills, p.side))
          /\ p.realizedPnl = RealizedFromOwnFills(p.fills, Len(p.fills), p.side)
    /\ pc = "replay" =>
          LET own == IF currentPosition = <<>> THEN <<>> ELSE fills
          IN  FillsOf(positions) \o own
                 = [k \in 1..(idx - 1) |-> tradeFill(trades[k])]
    /\ currentPosition # <<>> =>
          LET side == currentPosition[1].side IN
          /\ currentPosition[1].openedAt = fills[1].entryDate
          /\ fillsCount = Len(fills)
          /\ runningQuantity = NetQuantity(fills, side)
          /\ realizedPnl = RealizedFromOwnFills(fills, Len(fills), side)
\* C25 witness: a position opened by the fill after the one that closed a
\* position of two fills with a realized P&L, itself of one fill and no P&L.
C25_Witness ==
    \E k, j \in 1..Len(Emitted) :
       /\ Emitted[k].status = "closed"
       /\ Emitted[k].fillsCount = 2
       /\ Emitted[k].realizedPnl # RInt(0)
       /\ Emitted[j].symbol = Emitted[k].symbol
       /\ Emitted[j].openedAt > Emitted[k].closedAt[1]
       /\ Emitted[j].fillsCount = 1
       /\ Emitted[j].realizedPnl = RInt(0)
       /\ Emitted[j].totalEntryCost # Emitted[k].totalEntryCost

\* C27: the replay never takes a reducing fill against a flat position.  The
\* fill that opens a position increases it; a position that stays open after a
\* fill holds more than epsilon, so the fill after it, a reducing one
\* included, meets a running quantity above epsilon; the average entry price
\* of line 185 is never computed with a divisor of zero.
C27_NoReductionOfFlatPosition ==
    /\ currentPosition # <<>> =>
          /\ runningQuantity * EpsDen > EpsNum
          /\ IsIncreasingFill(fills[1], currentPosition[1].side)
          /\ \A n \in 1..Len(fills) :
                ~IsIncreasingFill(fills[n], currentPosition[1].side) =>
                   NetQuantity(SubSeq(fills, 1, n - 1), currentPosition[1].side)
                      * EpsDen > EpsNum
    /\ \A k \in 1..Len(Emitted) :
          LET p == Emitted[k] IN
          /\ IsIncreasingFill(p.fills[1], p.side)
          /\ \A n \in 1..Len(p.fills) :
                ~IsIncreasingFill(p.fills[n], p.side) =>
                   NetQuantity(SubSeq(p.fills, 1, n - 1), p.side) * EpsDen > EpsNum
    /\ ~IsNaN(realizedPnl)
\* C27 witness: after a position that a fill of quantity 0 opened and closed,
\* a position has taken a reducing fill and stays open.
C27_Witness ==
    /\ currentPosition # <<>>
    /\ ReducingFills(fills, currentPosition[1].side) # <<>>
    /\ \E k \in 1..Len(positions) : QuantityOf(positions[k].fills) = 0

\* The first persisted row the computed position p matches, <<>> when none.
MatchedRow(p) ==
    LET rows == IF p.status = "closed"
                THEN ClosedMatches(existingPositions, p.symbol, p.openedAt)
                ELSE OpenMatches(existingPositions, p.symbol)
    IN  IF rows = <<>> THEN <<>> ELSE <<rows[1]>>

\* C26: the identities of the returned list are pairwise distinct, and no
\* persisted row gives its identity, journal and category to more than one
\* returned position, fills of equal timestamps included.
C26_UniqueIdentities ==
    pc = "resolved" =>
       /\ \A i, j \in 1..Len(Returned) : i # j => Returned[i].id # Returned[j].id
       /\ \A r \in Range(existingPositions) :
             Cardinality({k \in 1..Len(Returned) : MatchedRow(Returned[k]) = <<r>>}) <= 1

\* C28: overlapping calls of loadPositions do not leave stale data.  When two
\* or more calls were triggered and all have settled, the last triggered one
\* with a list, the positions shown are that call's list; positionsLoading is
\* off only when no call is pending.
C28_LatestRunShown ==
    /\ ~positionsLoading => \A i \in 1..Len(loadRuns) : loadRuns[i].stage # "pending"
    /\ ( /\ Len(loadRuns) >= 2
         /\ \A i \in 1..Len(loadRuns) : loadRuns[i].stage # "pending"
         /\ loadRuns[Len(loadRuns)].stage = "resolved" )
       => appPositions = positionsOfBuys(loadRuns[Len(loadRuns)].read[1])

\* The columns syncPositionsToDatabase may change in a row that exists.
ComputedColumns ==
    {"status", "total_quantity", "realized_pnl", "realized_pnl_percent",
     "closed_at", "fills_count"}
\* The row after keeps every column of the row before outside ComputedColumns.
KeepsOtherColumns(before, after) ==
    \A c \in DOMAIN before \ ComputedColumns :
        c \in DOMAIN after /\ after[c] = before[c]
\* Every fill of every position the call has synced is linked to the
\* position's id.
AllFillsLinked ==
    \A k \in 1..Len(syncCall.synced) :
       \A j \in 1..Len(syncCall.synced[k].fills) :
          <<syncCall.synced[k].fills[j].id, syncCall.synced[k].id>> \in tradeLinks

Greatest(ids) == CHOOSE k \in ids : \A j \in ids : j <= k

\* C30: when fetchLighterTrades has settled, the sync before the read wrote
\* only trades of the exchange whose trade_id is greater than the latest
\* stored at the call, and counted them; the call rejects exactly when the
\* read of the table failed, an error of the sync aside; and when it resolves
\* with a client it resolves with the trades of the table.
C30_FetchSyncsThenReads ==
    fetchCall.stage \in {"resolved", "rejected"} =>
       /\ \A id \in fetchCall.written :
             /\ \E k \in 1..Len(apiFeed.trades) : apiFeed.trades[k].trade_id = id
             /\ fetchCall.stored # {} => id > Greatest(fetchCall.stored)
       /\ fetchCall.count = Cardinality(fetchCall.written)
       /\ (fetchCall.stage = "rejected") = fetchCall.readThrew
       /\ (fetchCall.stage = "resolved" /\ fetchCall.supabase) =>
             fetchCall.trades = [k \in 1..Len(tradesTable) |->
                                   dbTradeToAppTrade(tradesTable[k])]
====
